---- MODULE Spec2Model ----
(***************************************************************************)
(* A model of the geometric transformations of                             *)
(* src/06_Image_Transformations/transformation.py: main() loads a raster,  *)
(* then translates, rotates, scales and reflects it through cv2.warpAffine,*)
(* cv2.getRotationMatrix2D, cv2.resize, cv2.flip and the imutils helpers.  *)
(*                                                                         *)
(* Real numbers are fixed point: a real r is the integer r * SCALE.  Pixel *)
(* coordinates are integers; a raster is a record of its width, its height *)
(* and a function from <<x, y>> to the pixel's value (one number stands    *)
(* for the pixel's channels).  Rasters live in a heap of buffers, and the  *)
(* script's variables hold buffer ids, as Python names hold references.    *)
(***************************************************************************)
EXTENDS Integers, Sequences, FiniteSets, TLC

\* Largest width and height of the raster that cv2.imread returns.
MaxDim == 3

\* Largest magnitude of a translation offset.
MaxOff == 1

\* Number of buffer cells of the heap.
MaxBufs == 6

\* Fixed-point unit: the real 1.0.
SCALE == 10 ^ 4

\* INTER_TAB_SIZE of cv2.warpAffine: source coordinates are kept to 1/32 pixel.
INTER_TAB_SIZE == 2 ^ 5

\* The angle of the script's rotations, in degrees.
ScriptTeta == 45
\* The side of the black canvas of drawing.py.
CanvasSide == 300

\* Python's None, where a raster is expected: the raster with no pixel.
None == [width |-> 0, height |-> 0, px |-> [p \in {} |-> 0]]

(***************************************************************************)
(* Arithmetic                                                              *)
(***************************************************************************)
Abs(n) == IF n < 0 THEN -n ELSE n

Max(a, b) == IF a >= b THEN a ELSE b

Min(a, b) == IF a <= b THEN a ELSE b

\* n / d rounded to the nearest integer (halves upward), for any sign of d.
RoundDiv(n, d) ==
    IF d > 0 THEN (n + (d \div 2)) \div d
    ELSE ((-n) + ((-d) \div 2)) \div (-d)

\* The integer part of the fixed-point real r, for r >= 0.
CeilAsFloor(r) == r \div SCALE

\* np.ceil of the fixed-point real r, as an integer.
Ceil(r) == -((-r) \div SCALE)

\* int() of the fixed-point real r: truncation toward zero.
Trunc(r) == IF r >= 0 THEN r \div SCALE ELSE -((-r) \div SCALE)

\* The nearest integer pixel coordinate of the fixed-point real r.
Round(r) == RoundDiv(r, SCALE)

\* cos of 0, 15, ..., 90 degrees, times SCALE.
CosTable(d) ==
    CASE d = 0 -> 10000
      [] d = 15 -> 9659
      [] d = 25 -> 9063
      [] d = 30 -> 8660
      [] d = 45 -> 7071
      [] d = 60 -> 5000
      [] d = 65 -> 4226
      [] d = 75 -> 2588
      [] d = 90 -> 0

\* np.cos(np.deg2rad(a)) for a in degrees, a multiple of 15.
Cos(a) ==
    LET r == a % 360
    IN  IF r <= 90 THEN CosTable(r)
        ELSE IF r <= 180 THEN -CosTable(180 - r)
        ELSE IF r <= 270 THEN -CosTable(r - 180)
        ELSE CosTable(360 - r)

\* np.sin(np.deg2rad(a)).
Sin(a) == Cos(a - 90)

(***************************************************************************)
(* Rasters and matrices                                                    *)
(***************************************************************************)
Coords(w, h) == (0 .. w - 1) \X (0 .. h - 1)

\* The raster of width w and height h whose pixels are the function f of
\* <<x, y>>.
Raster(w, h, f) == [width |-> w, height |-> h, px |-> f]

InBounds(r, x, y) == x >= 0 /\ x < r.width /\ y >= 0 /\ y < r.height

\* The 2 x 3 matrix [[a, b, tx], [c, d, ty]], every entry times SCALE.
Matrix(a, b, tx, c, d, ty) == [a |-> a, b |-> b, tx |-> tx, c |-> c, d |-> d, ty |-> ty]

\* TranslationMatrix with the two offsets exchanged.
TranslationSwapped(dx, dy) == Matrix(SCALE, 0, dy * SCALE, 0, SCALE, dx * SCALE)

\* np.float32([[1, 0, Tx], [0, 1, Ty]])
TranslationMatrix(dx, dy) == Matrix(SCALE, 0, dx * SCALE, 0, SCALE, dy * SCALE)

\* RawRotationMatrix with the two sines exchanged.
RawRotationTransposed(t) == Matrix(Cos(t), Sin(t), 0, -Sin(t), Cos(t), 0)

\* np.float32([[cos t, -sin t, 0], [sin t, cos t, 0]])
RawRotationMatrix(t) == Matrix(Cos(t), -Sin(t), 0, Sin(t), Cos(t), 0)

\* np.float32([[scale, 0, 0], [0, scale, 0]]), scale a fixed-point real.
ScalingMatrix(s) == Matrix(s, 0, 0, 0, s, 0)

\* getRotationMatrix2D with (1 - alpha) taken for 1 in the translation.
RotationMatrixOffCenter(c2, angle, s) ==
    LET alpha == RoundDiv(s * Cos(angle), SCALE)
        beta == RoundDiv(s * Sin(angle), SCALE)
    IN  Matrix(alpha, beta,
               RoundDiv(SCALE * c2[1] - beta * c2[2], 2),
               -beta, alpha,
               RoundDiv(beta * c2[1] + SCALE * c2[2], 2))

\* getRotationMatrix2D with + beta cy for - beta cy in the first row.
RotationMatrixBetaSign(c2, angle, s) ==
    LET alpha == RoundDiv(s * Cos(angle), SCALE)
        beta == RoundDiv(s * Sin(angle), SCALE)
    IN  Matrix(alpha, beta,
               RoundDiv((SCALE - alpha) * c2[1] + beta * c2[2], 2),
               -beta, alpha,
               RoundDiv(beta * c2[1] + (SCALE - alpha) * c2[2], 2))

\* cv2.getRotationMatrix2D(center, angle, scale): alpha = scale cos, beta =
\* scale sin, [[alpha, beta, (1 - alpha) cx - beta cy],
\*             [-beta, alpha, beta cx + (1 - alpha) cy]].
\* c2 is twice the center, so that the half-pixel centers of
\* imutils.rotate_bound are integers too; s is a fixed-point real.
getRotationMatrix2D(c2, angle, s) ==
    LET alpha == RoundDiv(s * Cos(angle), SCALE)
        beta == RoundDiv(s * Sin(angle), SCALE)
    IN  Matrix(alpha, beta,
               RoundDiv((SCALE - alpha) * c2[1] - beta * c2[2], 2),
               -beta, alpha,
               RoundDiv(beta * c2[1] + (SCALE - alpha) * c2[2], 2))

\* The determinant of the linear part, times SCALE * SCALE.
Det(M) == M.a * M.d - M.b * M.c

\* The image of the pixel (x, y) under M, as a pair of fixed-point reals.
Apply(M, x, y) == <<M.a * x + M.b * y + M.tx, M.c * x + M.d * y + M.ty>>

\* invertAffineTransform left out: the matrix is used as the map from the
\* destination to the source.
NoInversion(M) == M

\* invertAffineTransform with the determinant taken without its sign.
InversionAbsDet(M) ==
    IF Det(M) = 0 THEN Matrix(0, 0, 0, 0, 0, 0)
    ELSE LET D == Abs(RoundDiv(Det(M), SCALE))
             ia == RoundDiv(M.d * SCALE, D)
             ib == RoundDiv((-M.b) * SCALE, D)
             ic == RoundDiv((-M.c) * SCALE, D)
             id == RoundDiv(M.a * SCALE, D)
         IN  Matrix(ia, ib, RoundDiv(-(ia * M.tx + ib * M.ty), SCALE),
                    ic, id, RoundDiv(-(ic * M.tx + id * M.ty), SCALE))

\* The inversion cv2.warpAffine does before it maps destination pixels back:
\* D = a d - b c, D = (D != 0) ? 1 / D : 0, so that a singular matrix inverts
\* to the zero matrix.
invertAffineTransform(M) ==
    IF Det(M) = 0 THEN Matrix(0, 0, 0, 0, 0, 0)
    ELSE LET D == RoundDiv(Det(M), SCALE)
             ia == RoundDiv(M.d * SCALE, D)
             ib == RoundDiv((-M.b) * SCALE, D)
             ic == RoundDiv((-M.c) * SCALE, D)
             id == RoundDiv(M.a * SCALE, D)
         IN  Matrix(ia, ib, RoundDiv(-(ia * M.tx + ib * M.ty), SCALE),
                    ic, id, RoundDiv(-(ic * M.tx + id * M.ty), SCALE))

\* borderMode = BORDER_CONSTANT, borderValue = 0: a source pixel outside the
\* source reads as the fill color.
FillColor == 0

PixelOrFill(src, x, y) == IF InBounds(src, x, y) THEN src.px[<<x, y>>] ELSE FillColor

\* INTER_LINEAR at the source coordinate (X, Y), fixed-point reals: the
\* coordinate is kept to 1 / INTER_TAB_SIZE pixel and the four neighbours are
\* blended by their bilinear weights.
SampleLinear(src, X, Y) ==
    LET T == INTER_TAB_SIZE
        xq == RoundDiv(X * T, SCALE)
        yq == RoundDiv(Y * T, SCALE)
        sx == xq \div T
        sy == yq \div T
        fx == xq % T
        fy == yq % T
    IN  RoundDiv(  (T - fx) * (T - fy) * PixelOrFill(src, sx, sy)
                 + fx * (T - fy) * PixelOrFill(src, sx + 1, sy)
                 + (T - fx) * fy * PixelOrFill(src, sx, sy + 1)
                 + fx * fy * PixelOrFill(src, sx + 1, sy + 1), T * T)

\* The size cv2.warpAffine gives its destination: dsize, or the source's
\* size when dsize is empty (a width or height that is not positive).
DestSize(src, dw, dh) ==
    IF dw <= 0 \/ dh <= 0 THEN <<src.width, src.height>> ELSE <<dw, dh>>

\* cv2.warpAffine(src, M, (dw, dh)): each destination pixel (u, v) is the
\* source sampled at the inverse image of (u, v).
warpAffine(src, M, dw, dh) ==
    LET inv == invertAffineTransform(M)
        size == DestSize(src, dw, dh)
        At(u, v) == LET q == Apply(inv, u, v) IN SampleLinear(src, q[1], q[2])
    IN  Raster(size[1], size[2],
               [p \in Coords(size[1], size[2]) |-> At(p[1], p[2])])

\* The flip codes by the names lines 231-232 give them: "com o valor 1 a
\* imagem sera refletida na horizontal, com o valor 0 na vertical, -1 em
\* ambas as direcoes".
Horizontal == 1

Vertical == 0

Both == -1

\* The matrix of the reflection of a w x h raster for the warp: the diagonal
\* (1, -1), (-1, 1) or (-1, -1) of the flip code, and the translation by
\* w - 1 or h - 1 that brings the mirrored raster back onto its own place.
ReflectionMatrix(code, w, h) ==
    IF code = 0 THEN Matrix(SCALE, 0, 0, 0, -SCALE, (h - 1) * SCALE)
    ELSE IF code > 0 THEN Matrix(-SCALE, 0, (w - 1) * SCALE, 0, SCALE, 0)
    ELSE Matrix(-SCALE, 0, (w - 1) * SCALE, 0, -SCALE, (h - 1) * SCALE)

\* flip with the codes of the horizontal and the vertical reflection
\* exchanged.
flipCodesExchanged(src, flipCode) ==
    LET At(x, y) ==
            IF flipCode = 0 THEN src.px[<<src.width - 1 - x, y>>]
            ELSE IF flipCode > 0 THEN src.px[<<x, src.height - 1 - y>>]
            ELSE src.px[<<src.width - 1 - x, src.height - 1 - y>>]
    IN  Raster(src.width, src.height,
               [p \in Coords(src.width, src.height) |-> At(p[1], p[2])])

\* flip that mirrors the first half onto the second and keeps the first.
flipHalf(src, flipCode) ==
    LET At(x, y) ==
            IF flipCode = 0 THEN src.px[<<x, Min(y, src.height - 1 - y)>>]
            ELSE IF flipCode > 0 THEN src.px[<<Min(x, src.width - 1 - x), y>>]
            ELSE src.px[<<Min(x, src.width - 1 - x), Min(y, src.height - 1 - y)>>]
    IN  Raster(src.width, src.height,
               [p \in Coords(src.width, src.height) |-> At(p[1], p[2])])

\* cv2.flip(src, flipCode): 0 reverses the rows (a flip about the x axis), a
\* positive code reverses the columns, a negative code reverses both.
flip(src, flipCode) ==
    LET At(x, y) ==
            IF flipCode = 0 THEN src.px[<<x, src.height - 1 - y>>]
            ELSE IF flipCode > 0 THEN src.px[<<src.width - 1 - x, y>>]
            ELSE src.px[<<src.width - 1 - x, src.height - 1 - y>>]
    IN  Raster(src.width, src.height,
               [p \in Coords(src.width, src.height) |-> At(p[1], p[2])])

\* cv2.resize reads outside the source with the border replicated.
PixelClamped(src, x, y) ==
    src.px[<<Max(0, Min(src.width - 1, x)), Max(0, Min(src.height - 1, y))>>]

\* The source coordinate of destination index d along an axis of source
\* length sn and destination length dn, (d + 0.5) * sn / dn - 0.5, in quarter
\* pixels (exact for the doubling the script asks for).
ResizeCoord4(d, sn, dn) == ((2 * d + 1) * 2 * sn - 2 * dn) \div dn

\* The INTER_LINEAR weights of the two taps at fraction t / 4.
LinearWeights(t) == <<4 - t, t>>

\* The INTER_CUBIC weights (A = -0.75) of the four taps at fraction t / 4,
\* times 256.
CubicWeights(t) ==
    CASE t = 0 -> <<0, 256, 0, 0>>
      [] t = 1 -> <<-27, 225, 67, -9>>
      [] t = 2 -> <<-24, 152, 152, -24>>
      [] t = 3 -> <<-9, 67, 225, -27>>

\* saturate_cast<uchar>.
Saturate(v) == Max(0, Min(255, v))

INTER_LINEAR == "INTER_LINEAR"

INTER_CUBIC == "INTER_CUBIC"

\* cv2.resize(src, (dw, dh), interpolation=...).
resize(src, dw, dh, interpolation) ==
    LET At(u, v) ==
            LET x4 == ResizeCoord4(u, src.width, dw)
                y4 == ResizeCoord4(v, src.height, dh)
                sx == x4 \div 4
                sy == y4 \div 4
                wx == IF interpolation = INTER_CUBIC THEN CubicWeights(x4 % 4)
                      ELSE LinearWeights(x4 % 4)
                wy == IF interpolation = INTER_CUBIC THEN CubicWeights(y4 % 4)
                      ELSE LinearWeights(y4 % 4)
                first == IF interpolation = INTER_CUBIC THEN -1 ELSE 0
                unit == IF interpolation = INTER_CUBIC THEN 256 ELSE 4
                taps == 1 .. Len(wx)
                Row(j) == LET RowSum[i \in 0 .. Len(wx)] ==
                                  IF i = 0 THEN 0
                                  ELSE RowSum[i - 1]
                                       + wx[i] * PixelClamped(src, sx + first + i - 1,
                                                              sy + first + j - 1)
                          IN  RowSum[Len(wx)]
                Total[j \in 0 .. Len(wy)] ==
                    IF j = 0 THEN 0 ELSE Total[j - 1] + wy[j] * Row(j)
            IN  Saturate(RoundDiv(Total[Len(wy)], unit * unit))
    IN  Raster(dw, dh, [p \in Coords(dw, dh) |-> At(p[1], p[2])])

\* imutils.translate(image, x, y): warpAffine by [[1, 0, x], [0, 1, y]] into
\* the image's own size.
imutils_translate(image, x, y) ==
    warpAffine(image, TranslationMatrix(x, y), image.width, image.height)

\* imutils.rotate(image, angle): center (w // 2, h // 2), scale 1.0, into the
\* image's own size.
imutils_rotate(image, angle) ==
    warpAffine(image,
               getRotationMatrix2D(<<2 * (image.width \div 2), 2 * (image.height \div 2)>>,
                                   angle, SCALE),
               image.width, image.height)

\* The matrix of imutils.rotate_bound(image, angle): the rotation by -angle
\* about (w / 2, h / 2), moved by (nW / 2 - cX, nH / 2 - cY).
RotateBoundMatrix(w, h, angle) ==
    LET R == getRotationMatrix2D(<<w, h>>, -angle, SCALE)
        cos == Abs(R.a)
        sin == Abs(R.b)
        nW == Trunc(h * sin + w * cos)
        nH == Trunc(h * cos + w * sin)
    IN  [R EXCEPT !.tx = @ + ((nW - w) * SCALE) \div 2,
                  !.ty = @ + ((nH - h) * SCALE) \div 2]

\* The size of imutils.rotate_bound's result: nW = int(h sin + w cos),
\* nH = int(h cos + w sin).
RotateBoundSize(w, h, angle) ==
    LET R == getRotationMatrix2D(<<w, h>>, -angle, SCALE)
    IN  <<Trunc(h * Abs(R.b) + w * Abs(R.a)), Trunc(h * Abs(R.a) + w * Abs(R.b))>>

\* imutils.rotate_bound(image, angle).
imutils_rotate_bound(image, angle) ==
    LET size == RotateBoundSize(image.width, image.height, angle)
    IN  warpAffine(image, RotateBoundMatrix(image.width, image.height, angle),
                   size[1], size[2])

\* CanvasSize with the floor for the ceiling.
CanvasSizeFloor(w, h, t) ==
    LET r == t % 90
    IN  <<(w * Cos(r) + h * Sin(r)) \div SCALE, (w * Sin(r) + h * Cos(r)) \div SCALE>>

\* CanvasSize from the angle itself, not reduced modulo 90.
CanvasSizeTrueAngle(w, h, t) ==
    <<Ceil(w * Cos(t) + h * Sin(t)), Ceil(w * Sin(t) + h * Cos(t))>>

\* The Canvas Sizer of the rotation without loss: teta_rad = deg2rad(teta % 90),
\* width_r = ceil(width cos + height sin), height_r = ceil(width sin + height cos).
CanvasSize(w, h, t) ==
    LET r == t % 90
    IN  <<Ceil(w * Cos(r) + h * Sin(r)), Ceil(w * Sin(r) + h * Cos(r))>>

(***************************************************************************)
(* The state of main() of transformation.py                                *)
(***************************************************************************)
VARIABLES
    pc,          \* the next statement of main, by its line
    file,        \* what cv2.imread finds at image_path: a raster, or None
    heap,        \* buffer id -> raster, None for a free cell
    original, translated, rotated, resized, reflected,  \* buffer ids, 0 unbound
    width, height, Tx, Ty, teta, scale, M,
    center, width_r, height_r, center_r,
    windows,     \* the names of the open display windows
    err,         \* the exception main ended with, "" for none
    shifts,      \* history: the offsets that made `translated` from `original`
    flipCode,    \* history: the flip code of the last cv2.flip
    pts,         \* the source pixels followed through the rotation without loss
    image_path,  \* the argument of main
    filename,    \* the path the raised exception carries, "" for none
    image,       \* image.py: buffer id of the loaded raster, 0 unbound
    mx,          \* the matrices and points of the matrix calculations
    par,         \* one warp call as run by the workers of the library
    disk,        \* histogram.py: what cv2.imread finds at each of its paths
    hist,        \* histogram.py: the locals of main
    loc          \* image.py: the locals of main after the load

vars == <<pc, file, heap, original, translated, rotated, resized, reflected,
          width, height, Tx, Ty, teta, scale, M, center, width_r, height_r,
          center_r, windows, err, shifts, flipCode, pts,
          image_path, filename, image, mx, par, disk, hist, loc>>

BufIds == 1 .. MaxBufs

\* The rasters a file may decode to: every size up to MaxDim, with every
\* pixel different from every other and from the fill color, or all black.
Labelled(w, h) == Raster(w, h, [p \in Coords(w, h) |-> 1 + p[1] + p[2] * w])

Black(w, h) == Raster(w, h, [p \in Coords(w, h) |-> 0])

Files ==
    {None} \cup {Labelled(w, h) : w \in 1 .. MaxDim, h \in 1 .. MaxDim}
             \cup {Black(w, h) : w \in 1 .. MaxDim, h \in 1 .. MaxDim}

Offsets == (-MaxOff) .. MaxOff

\* The angles of the script's rotations, in degrees: its own 45 and the
\* axis-aligned cases.
Angles == {0, ScriptTeta, 90}

\* The scale factors of the script's dilation: its own 0.5, and 0, 1 and 1.5.
Scales == {0, SCALE \div 2, SCALE, (3 * SCALE) \div 2}

FlipCodes == {-1, 0, 1}

NoMatrix == Matrix(0, 0, 0, 0, 0, 0)

\* The destination is the first cell, free or not.
FirstCell(h) == 1

\* The lowest free cell: where the next array is allocated.
FreeId(h) ==
    CHOOSE i \in DOMAIN h : h[i] = None /\ \A j \in DOMAIN h : j < i => h[j] # None

\* name = <new array r>: r is allocated while the array the name was bound
\* to is still alive, then that array, which no other name holds, is freed.
Rebind(h, old, r) ==
    IF old = 0 THEN [h EXCEPT ![FreeId(h)] = r]
    ELSE [h EXCEPT ![FreeId(h)] = r, ![old] = None]

\* The paths main may be given: one that holds whatever file is, one that
\* holds no readable image.
MissingPath == "missing.png"

Paths == {"image.png", MissingPath}

\* No matrix calculation has been made.
NoWork ==
    [b |-> 0, p |-> <<0, 0>>, raw |-> NoMatrix, m2 |-> NoMatrix,
     composed |-> NoMatrix, q |-> <<0, 0>>, c |-> <<0, 0>>]

\* No warp call is being followed through its workers.
NoWarp ==
    [src |-> None, owner |-> << >>, done |-> << >>, dst |-> << >>,
     writes |-> << >>]

\* histogram.py has not been started.
NoDisk == << >>

NoHist == << >>

\* image.py has bound none of its names yet.
NoLocals == << >>

Init ==
    /\ pc = "imread"
    /\ image_path \in Paths
    /\ file \in IF image_path = MissingPath THEN {None} ELSE Files
    /\ filename = "" /\ image = 0 /\ mx = NoWork /\ par = NoWarp
    /\ heap = [i \in BufIds |-> None]
    /\ original = 0 /\ translated = 0 /\ rotated = 0 /\ resized = 0 /\ reflected = 0
    /\ width = 0 /\ height = 0 /\ Tx = 0 /\ Ty = 0 /\ teta = 0 /\ scale = 0
    /\ M = NoMatrix
    /\ center = <<0, 0>> /\ width_r = 0 /\ height_r = 0 /\ center_r = <<0, 0>>
    /\ windows = {}
    /\ err = ""
    /\ shifts = << >>
    /\ flipCode = 0
    /\ pts = << >>
    /\ disk = NoDisk /\ hist = NoHist /\ loc = NoLocals

\* Load with the window opened before the raster is looked at.
LoadShowFirst ==
    /\ pc = "imread"
    /\ windows' = windows \cup {"Original"}
    /\ IF file = None
       THEN /\ pc' = "raised"
            /\ err' = "FileNotFoundError"
            /\ filename' = image_path
            /\ UNCHANGED <<heap, original, width, height>>
       ELSE /\ pc' = "translate"
            /\ filename' = filename
            /\ original' = FreeId(heap)
            /\ heap' = Rebind(heap, 0, file)
            /\ width' = file.width
            /\ height' = file.height
            /\ err' = err
    /\ UNCHANGED <<image_path, image, mx, par>>
    /\ UNCHANGED <<file, translated, rotated, resized, reflected, Tx, Ty, teta,
                   scale, M, center, width_r, height_r, center_r, shifts,
                   flipCode, pts>>
    /\ UNCHANGED <<disk, hist, loc>>

\* Lines 66-76: original = cv2.imread(image_path); FileNotFoundError when it
\* is None; otherwise the raster is shown and its dimensions are kept.
Load ==
    /\ pc = "imread"
    /\ IF file = None
       THEN /\ pc' = "raised"
            /\ err' = "FileNotFoundError"
            /\ filename' = image_path
            /\ UNCHANGED <<heap, original, windows, width, height>>
       ELSE /\ pc' = "translate"
            /\ filename' = filename
            /\ original' = FreeId(heap)
            /\ heap' = Rebind(heap, 0, file)
            /\ windows' = windows \cup {"Original"}
            /\ width' = file.width
            /\ height' = file.height
            /\ err' = err
    /\ UNCHANGED <<image_path, image, mx, par>>
    /\ UNCHANGED <<file, translated, rotated, resized, reflected, Tx, Ty, teta,
                   scale, M, center, width_r, height_r, center_r, shifts,
                   flipCode, pts>>
    /\ UNCHANGED <<disk, hist, loc>>

\* Lines 92-101: Tx, Ty and M are set, translated = warpAffine(original, M,
\* (width, height)) is shown.  The script's offsets are (50, 100).
Translate ==
    /\ pc = "translate"
    /\ \E dx \in Offsets, dy \in Offsets :
          /\ Tx' = dx
          /\ Ty' = dy
          /\ M' = TranslationMatrix(dx, dy)
          /\ translated' = FreeId(heap)
          /\ heap' = Rebind(heap, translated,
                            warpAffine(heap[original], TranslationMatrix(dx, dy),
                                       width, height))
          /\ shifts' = <<<<dx, dy>>>>
    /\ windows' = windows \cup {"Translated"}
    /\ pc' = "translate_again"
    /\ UNCHANGED <<image_path, filename, image, mx, par>>
    /\ UNCHANGED <<file, original, rotated, resized, reflected, width, height,
                   teta, scale, center, width_r, height_r, center_r, err,
                   flipCode, pts>>
    /\ UNCHANGED <<disk, hist, loc>>

\* Lines 106-112: Tx, Ty and M are set anew and translated is warped again
\* into (width, height).  The script's offsets are (-100, -50).
TranslateAgain ==
    /\ pc = "translate_again"
    /\ \E dx \in Offsets, dy \in Offsets :
          /\ Tx' = dx
          /\ Ty' = dy
          /\ M' = TranslationMatrix(dx, dy)
          /\ translated' = FreeId(heap)
          /\ heap' = Rebind(heap, translated,
                            warpAffine(heap[translated], TranslationMatrix(dx, dy),
                                       width, height))
          /\ shifts' = Append(shifts, <<dx, dy>>)
    /\ windows' = windows \cup {"Translated"}
    /\ pc' = "translate_enlarged"
    /\ UNCHANGED <<image_path, filename, image, mx, par>>
    /\ UNCHANGED <<file, original, rotated, resized, reflected, width, height,
                   teta, scale, center, width_r, height_r, center_r, err,
                   flipCode, pts>>
    /\ UNCHANGED <<disk, hist, loc>>

\* TranslateEnlarged with the destination left at (width, height).
TranslateEnlargedSameSize ==
    /\ pc = "translate_enlarged"
    /\ \E dx \in 0 .. MaxOff, dy \in 0 .. MaxOff :
          /\ M' = TranslationMatrix(dx, dy)
          /\ translated' = FreeId(heap)
          /\ heap' = Rebind(heap, translated,
                            warpAffine(heap[original], TranslationMatrix(dx, dy),
                                       width, height))
          /\ shifts' = <<<<dx, dy>>>>
    /\ windows' = windows \cup {"Translated"}
    /\ pc' = "translate_back"
    /\ UNCHANGED <<image_path, filename, image, mx, par>>
    /\ UNCHANGED <<file, original, rotated, resized, reflected, width, height,
                   Tx, Ty, teta, scale, center, width_r, height_r, center_r, err,
                   flipCode, pts>>
    /\ UNCHANGED <<disk, hist, loc>>

\* Lines 115-118: to lose nothing, original is translated into a destination
\* enlarged by the offsets.  The script's offsets are (50, 100).
TranslateEnlarged ==
    /\ pc = "translate_enlarged"
    /\ \E dx \in 0 .. MaxOff, dy \in 0 .. MaxOff :
          /\ M' = TranslationMatrix(dx, dy)
          /\ translated' = FreeId(heap)
          /\ heap' = Rebind(heap, translated,
                            warpAffine(heap[original], TranslationMatrix(dx, dy),
                                       width + dx, height + dy))
          /\ shifts' = <<<<dx, dy>>>>
    /\ windows' = windows \cup {"Translated"}
    /\ pc' = "translate_back"
    /\ UNCHANGED <<image_path, filename, image, mx, par>>
    /\ UNCHANGED <<file, original, rotated, resized, reflected, width, height,
                   Tx, Ty, teta, scale, center, width_r, height_r, center_r, err,
                   flipCode, pts>>
    /\ UNCHANGED <<disk, hist, loc>>

\* Lines 120-123: translated is moved back by the opposite offsets, the
\* script's (-50, -100), into (width, height).
TranslateBack ==
    /\ pc = "translate_back"
    /\ LET dx == -(M.tx \div SCALE)
           dy == -(M.ty \div SCALE)
       IN  /\ M' = TranslationMatrix(dx, dy)
           /\ translated' = FreeId(heap)
           /\ heap' = Rebind(heap, translated,
                             warpAffine(heap[translated], TranslationMatrix(dx, dy),
                                        width, height))
           /\ shifts' = Append(shifts, <<dx, dy>>)
    /\ windows' = windows \cup {"Translated"}
    /\ pc' = "imutils_translate"
    /\ UNCHANGED <<image_path, filename, image, mx, par>>
    /\ UNCHANGED <<file, original, rotated, resized, reflected, width, height,
                   Tx, Ty, teta, scale, center, width_r, height_r, center_r, err,
                   flipCode, pts>>
    /\ UNCHANGED <<disk, hist, loc>>

\* Lines 129-132: translated = imutils.translate(original, Tx, Ty), shown,
\* then the window "Translated" is destroyed.
ImutilsTranslate ==
    /\ pc = "imutils_translate"
    /\ translated' = FreeId(heap)
    /\ heap' = Rebind(heap, translated, imutils_translate(heap[original], Tx, Ty))
    /\ shifts' = <<<<Tx, Ty>>>>
    /\ windows' = (windows \cup {"Translated"}) \ {"Translated"}
    /\ pc' = "rotate_raw"
    /\ UNCHANGED <<image_path, filename, image, mx, par>>
    /\ UNCHANGED <<file, original, rotated, resized, reflected, width, height,
                   Tx, Ty, teta, scale, M, center, width_r, height_r, center_r,
                   err, flipCode, pts>>
    /\ UNCHANGED <<disk, hist, loc>>

\* Lines 137-142: the raw rotation matrix about the origin.  The script's
\* angle is 45 degrees, here and at every later rotation.
RotateRaw ==
    /\ pc = "rotate_raw"
    /\ \E a \in Angles :
          /\ teta' = a
          /\ M' = RawRotationMatrix(a)
          /\ rotated' = FreeId(heap)
          /\ heap' = Rebind(heap, rotated,
                            warpAffine(heap[original], RawRotationMatrix(a),
                                       width, height))
    /\ windows' = windows \cup {"Rotated"}
    /\ pc' = "rotate_center"
    /\ UNCHANGED <<image_path, filename, image, mx, par>>
    /\ UNCHANGED <<file, original, translated, resized, reflected, width, height,
                   Tx, Ty, scale, center, width_r, height_r, center_r, err,
                   shifts, flipCode, pts>>
    /\ UNCHANGED <<disk, hist, loc>>

\* Lines 151-155: the rotation about the center (width // 2, height // 2)
\* into (width, height).
RotateCenter ==
    /\ pc = "rotate_center"
    /\ center' = <<width \div 2, height \div 2>>
    /\ LET R == getRotationMatrix2D(<<2 * (width \div 2), 2 * (height \div 2)>>,
                                    teta, SCALE)
       IN  /\ M' = R
           /\ rotated' = FreeId(heap)
           /\ heap' = Rebind(heap, rotated, warpAffine(heap[original], R, width, height))
    /\ windows' = windows \cup {"Rotated"}
    /\ pc' = "size_canvas"
    /\ UNCHANGED <<image_path, filename, image, mx, par>>
    /\ UNCHANGED <<file, original, translated, resized, reflected, width, height,
                   Tx, Ty, teta, scale, width_r, height_r, center_r, err, shifts,
                   flipCode, pts>>
    /\ UNCHANGED <<disk, hist, loc>>

\* Lines 169-173: the size and the center of the canvas of the rotation
\* without loss.
SizeCanvas ==
    /\ pc = "size_canvas"
    /\ LET size == CanvasSize(width, height, teta)
       IN  /\ width_r' = size[1]
           /\ height_r' = size[2]
           /\ center_r' = <<size[1] \div 2, size[2] \div 2>>
    /\ pc' = "pre_translate"
    /\ UNCHANGED <<image_path, filename, image, mx, par>>
    /\ UNCHANGED <<file, heap, original, translated, rotated, resized, reflected,
                   width, height, Tx, Ty, teta, scale, M, center, windows, err,
                   shifts, flipCode, pts>>
    /\ UNCHANGED <<disk, hist, loc>>

\* Lines 176-177: original is translated by center_r - center into the
\* canvas.
PreTranslate ==
    /\ pc = "pre_translate"
    /\ LET T == TranslationMatrix(center_r[1] - center[1], center_r[2] - center[2])
       IN  /\ M' = T
           /\ rotated' = FreeId(heap)
           /\ heap' = Rebind(heap, rotated,
                             warpAffine(heap[original], T, width_r, height_r))
           /\ pts' = [p \in Coords(width, height) |-> Apply(T, p[1], p[2])]
    /\ pc' = "rotate_lossless"
    /\ UNCHANGED <<image_path, filename, image, mx, par>>
    /\ UNCHANGED <<file, original, translated, resized, reflected, width, height,
                   Tx, Ty, teta, scale, center, width_r, height_r, center_r,
                   windows, err, shifts, flipCode>>
    /\ UNCHANGED <<disk, hist, loc>>

\* Lines 180-183: the translated raster is rotated by teta about center_r
\* within the canvas.
RotateLossless ==
    /\ pc = "rotate_lossless"
    /\ LET R == getRotationMatrix2D(<<2 * center_r[1], 2 * center_r[2]>>, teta, SCALE)
       IN  /\ M' = R
           /\ rotated' = FreeId(heap)
           /\ heap' = Rebind(heap, rotated,
                             warpAffine(heap[rotated], R, width_r, height_r))
           /\ pts' = [p \in DOMAIN pts |->
                         Apply(R, pts[p][1] \div SCALE, pts[p][2] \div SCALE)]
    /\ windows' = windows \cup {"Rotated"}
    /\ pc' = "imutils_rotate"
    /\ UNCHANGED <<image_path, filename, image, mx, par>>
    /\ UNCHANGED <<file, original, translated, resized, reflected, width, height,
                   Tx, Ty, teta, scale, center, width_r, height_r, center_r, err,
                   shifts, flipCode>>
    /\ UNCHANGED <<disk, hist, loc>>

\* Lines 192-194: rotated = imutils.rotate(original, 45).
ImutilsRotate ==
    /\ pc = "imutils_rotate"
    /\ rotated' = FreeId(heap)
    /\ heap' = Rebind(heap, rotated, imutils_rotate(heap[original], teta))
    /\ windows' = windows \cup {"Rotated"}
    /\ pc' = "imutils_rotate_bound"
    /\ UNCHANGED <<image_path, filename, image, mx, par>>
    /\ UNCHANGED <<file, original, translated, resized, reflected, width, height,
                   Tx, Ty, teta, scale, M, center, width_r, height_r, center_r,
                   err, shifts, flipCode, pts>>
    /\ UNCHANGED <<disk, hist, loc>>

\* Lines 195-198: rotated = imutils.rotate_bound(original, -45), shown, then
\* the window "Rotated" is destroyed.
ImutilsRotateBound ==
    /\ pc = "imutils_rotate_bound"
    /\ rotated' = FreeId(heap)
    /\ heap' = Rebind(heap, rotated, imutils_rotate_bound(heap[original], -teta))
    /\ windows' = (windows \cup {"Rotated"}) \ {"Rotated"}
    /\ pc' = "scale"
    /\ UNCHANGED <<image_path, filename, image, mx, par>>
    /\ UNCHANGED <<file, original, translated, resized, reflected, width, height,
                   Tx, Ty, teta, scale, M, center, width_r, height_r, center_r,
                   err, shifts, flipCode, pts>>
    /\ UNCHANGED <<disk, hist, loc>>

\* Lines 204-210: the dilation by `scale` through warpAffine, into
\* (ceil(width * scale), ceil(height * scale)).  The script's scale is 0.5.
Scale ==
    /\ pc = "scale"
    /\ \E s \in Scales :
          /\ scale' = s
          /\ width_r' = Ceil(width * s)
          /\ height_r' = Ceil(height * s)
          /\ M' = ScalingMatrix(s)
          /\ resized' = FreeId(heap)
          /\ heap' = Rebind(heap, resized,
                            warpAffine(heap[original], ScalingMatrix(s),
                                       Ceil(width * s), Ceil(height * s)))
    /\ windows' = windows \cup {"Resized"}
    /\ pc' = "resize"
    /\ UNCHANGED <<image_path, filename, image, mx, par>>
    /\ UNCHANGED <<file, original, translated, rotated, reflected, width, height,
                   Tx, Ty, teta, center, center_r, err, shifts, flipCode, pts>>
    /\ UNCHANGED <<disk, hist, loc>>

\* Lines 215-217: resized = cv2.resize(original, (width * 2, height * 2)).
Resize ==
    /\ pc = "resize"
    /\ resized' = FreeId(heap)
    /\ heap' = Rebind(heap, resized,
                      resize(heap[original], width * 2, height * 2, INTER_LINEAR))
    /\ windows' = windows \cup {"Resized"}
    /\ pc' = "resize_cubic"
    /\ UNCHANGED <<image_path, filename, image, mx, par>>
    /\ UNCHANGED <<file, original, translated, rotated, reflected, width, height,
                   Tx, Ty, teta, scale, M, center, width_r, height_r, center_r,
                   err, shifts, flipCode, pts>>
    /\ UNCHANGED <<disk, hist, loc>>

\* Lines 220-223: the same with interpolation=cv2.INTER_CUBIC, shown, then
\* the window "Resized" is destroyed.
ResizeCubic ==
    /\ pc = "resize_cubic"
    /\ resized' = FreeId(heap)
    /\ heap' = Rebind(heap, resized,
                      resize(heap[original], width * 2, height * 2, INTER_CUBIC))
    /\ windows' = (windows \cup {"Resized"}) \ {"Resized"}
    /\ pc' = "flip"
    /\ UNCHANGED <<image_path, filename, image, mx, par>>
    /\ UNCHANGED <<file, original, translated, rotated, reflected, width, height,
                   Tx, Ty, teta, scale, M, center, width_r, height_r, center_r,
                   err, shifts, flipCode, pts>>
    /\ UNCHANGED <<disk, hist, loc>>

\* Lines 233-235: reflected = cv2.flip(original, 0), shown.  The script's
\* flip code is 0.
Reflect ==
    /\ pc = "flip"
    /\ \E code \in FlipCodes :
          /\ flipCode' = code
          /\ reflected' = FreeId(heap)
          /\ heap' = Rebind(heap, reflected, flip(heap[original], code))
    /\ windows' = windows \cup {"Reflected"}
    /\ pc' = "destroy_all"
    /\ UNCHANGED <<image_path, filename, image, mx, par>>
    /\ UNCHANGED <<file, original, translated, rotated, resized, width, height,
                   Tx, Ty, teta, scale, M, center, width_r, height_r, center_r,
                   err, shifts, pts>>
    /\ UNCHANGED <<disk, hist, loc>>

\* Line 237: cv2.destroyAllWindows(), and main returns.
DestroyAll ==
    /\ pc = "destroy_all"
    /\ windows' = {}
    /\ pc' = "done"
    /\ UNCHANGED <<image_path, filename, image, mx, par>>
    /\ UNCHANGED <<file, heap, original, translated, rotated, resized, reflected,
                   width, height, Tx, Ty, teta, scale, M, center, width_r,
                   height_r, center_r, err, shifts, flipCode, pts>>
    /\ UNCHANGED <<disk, hist, loc>>

Next ==
    \/ Load
    \/ Translate
    \/ TranslateAgain
    \/ TranslateEnlarged
    \/ TranslateBack
    \/ ImutilsTranslate
    \/ RotateRaw
    \/ RotateCenter
    \/ SizeCanvas
    \/ PreTranslate
    \/ RotateLossless
    \/ ImutilsRotate
    \/ ImutilsRotateBound
    \/ Scale
    \/ Resize
    \/ ResizeCubic
    \/ Reflect
    \/ DestroyAll

Spec == Init /\ [][Next]_vars

(***************************************************************************)
(* The rotation without loss of lines 169-181 alone, on rasters given by   *)
(* their dimensions: the sizes up to MaxDim and the 300 x 300 canvas of    *)
(* drawing.py, at every angle of CanvasAngles.  Only the tracked source    *)
(* pixels are followed; no buffer is allocated.                            *)
(***************************************************************************)
CanvasDims == (1 .. MaxDim) \cup {CanvasSide}

CanvasAngles == {-90, -45, -30, 0, 15, 30, ScriptTeta, 60, 90, 120, 135, 180, 270}

Corners(w, h) == {<<0, 0>>, <<w - 1, 0>>, <<0, h - 1>>, <<w - 1, h - 1>>}

\* The source pixels that are followed: all of a small raster, the four
\* corners of a large one.
Tracked(w, h) == IF w <= MaxDim /\ h <= MaxDim THEN Coords(w, h) ELSE Corners(w, h)

InitCanvas ==
    /\ pc = "size_canvas"
    /\ file = None
    /\ image_path = MissingPath
    /\ filename = "" /\ image = 0 /\ mx = NoWork /\ par = NoWarp
    /\ heap = [i \in BufIds |-> None]
    /\ original = 0 /\ translated = 0 /\ rotated = 0 /\ resized = 0 /\ reflected = 0
    /\ width \in CanvasDims
    /\ height \in CanvasDims
    /\ center = <<width \div 2, height \div 2>>
    /\ teta \in CanvasAngles
    /\ Tx = 0 /\ Ty = 0 /\ scale = 0
    /\ M = NoMatrix
    /\ width_r = 0 /\ height_r = 0 /\ center_r = <<0, 0>>
    /\ windows = {}
    /\ err = ""
    /\ shifts = << >>
    /\ flipCode = 0
    /\ pts = << >>
    /\ disk = NoDisk /\ hist = NoHist /\ loc = NoLocals

\* TrackPreTranslate with half the difference of the sizes for the difference
\* of the centers.
TrackPreTranslateHalfDifference ==
    /\ pc = "pre_translate"
    /\ LET T == TranslationMatrix((width_r - width) \div 2, (height_r - height) \div 2)
       IN  /\ M' = T
           /\ pts' = [p \in Tracked(width, height) |-> Apply(T, p[1], p[2])]
    /\ pc' = "rotate_lossless"
    /\ UNCHANGED <<image_path, filename, image, mx, par>>
    /\ UNCHANGED <<file, heap, original, translated, rotated, resized, reflected,
                   width, height, Tx, Ty, teta, scale, center, width_r, height_r,
                   center_r, windows, err, shifts, flipCode>>
    /\ UNCHANGED <<disk, hist, loc>>

\* Lines 176-177, on the tracked pixels.
TrackPreTranslate ==
    /\ pc = "pre_translate"
    /\ LET T == TranslationMatrix(center_r[1] - center[1], center_r[2] - center[2])
       IN  /\ M' = T
           /\ pts' = [p \in Tracked(width, height) |-> Apply(T, p[1], p[2])]
    /\ pc' = "rotate_lossless"
    /\ UNCHANGED <<image_path, filename, image, mx, par>>
    /\ UNCHANGED <<file, heap, original, translated, rotated, resized, reflected,
                   width, height, Tx, Ty, teta, scale, center, width_r, height_r,
                   center_r, windows, err, shifts, flipCode>>
    /\ UNCHANGED <<disk, hist, loc>>

\* TrackRotate with the matrix built from the angle reduced modulo 90.
TrackRotateReduced ==
    /\ pc = "rotate_lossless"
    /\ LET R == getRotationMatrix2D(<<2 * center_r[1], 2 * center_r[2]>>,
                                    teta % 90, SCALE)
       IN  /\ M' = R
           /\ pts' = [p \in DOMAIN pts |->
                         Apply(R, pts[p][1] \div SCALE, pts[p][2] \div SCALE)]
    /\ pc' = "imutils_rotate"
    /\ UNCHANGED <<image_path, filename, image, mx, par>>
    /\ UNCHANGED <<file, heap, original, translated, rotated, resized, reflected,
                   width, height, Tx, Ty, teta, scale, center, width_r, height_r,
                   center_r, windows, err, shifts, flipCode>>
    /\ UNCHANGED <<disk, hist, loc>>

\* Lines 180-181, on the tracked pixels.
TrackRotate ==
    /\ pc = "rotate_lossless"
    /\ LET R == getRotationMatrix2D(<<2 * center_r[1], 2 * center_r[2]>>, teta, SCALE)
       IN  /\ M' = R
           /\ pts' = [p \in DOMAIN pts |->
                         Apply(R, pts[p][1] \div SCALE, pts[p][2] \div SCALE)]
    /\ pc' = "imutils_rotate"
    /\ UNCHANGED <<image_path, filename, image, mx, par>>
    /\ UNCHANGED <<file, heap, original, translated, rotated, resized, reflected,
                   width, height, Tx, Ty, teta, scale, center, width_r, height_r,
                   center_r, windows, err, shifts, flipCode>>
    /\ UNCHANGED <<disk, hist, loc>>

NextCanvas ==
    \/ SizeCanvas
    \/ TrackPreTranslate
    \/ TrackRotate

SpecCanvas == InitCanvas /\ [][NextCanvas]_vars

(***************************************************************************)
(* The matrices of lines 137-153 alone: the raw rotation matrix and the    *)
(* matrix of getRotationMatrix2D, for every center of MatrixCenters, every *)
(* angle of CanvasAngles and every scale of Scales; then a second rotation *)
(* about the same center, the product of the two, and its image of a       *)
(* point.                                                                  *)
(***************************************************************************)
MatrixCenters == (0 .. MaxDim - 1) \X (0 .. MaxDim - 1)

SecondAngles == {-ScriptTeta, 15, 30, 90}

MatrixPoints == {<<0, 0>>, <<1, 0>>, <<2, MaxDim>>}

\* The matrix of "m1 first, then m2": the product m2 m1 of the two affine
\* maps.
Compose(m1, m2) ==
    Matrix(RoundDiv(m2.a * m1.a + m2.b * m1.c, SCALE),
           RoundDiv(m2.a * m1.b + m2.b * m1.d, SCALE),
           RoundDiv(m2.a * m1.tx + m2.b * m1.ty, SCALE) + m2.tx,
           RoundDiv(m2.c * m1.a + m2.d * m1.c, SCALE),
           RoundDiv(m2.c * m1.b + m2.d * m1.d, SCALE),
           RoundDiv(m2.c * m1.tx + m2.d * m1.ty, SCALE) + m2.ty)

InitMatrix ==
    /\ pc = "raw_matrix"
    /\ file = None
    /\ image_path = MissingPath
    /\ filename = "" /\ image = 0 /\ par = NoWarp
    /\ heap = [i \in BufIds |-> None]
    /\ original = 0 /\ translated = 0 /\ rotated = 0 /\ resized = 0 /\ reflected = 0
    /\ width = 0 /\ height = 0
    /\ center \in MatrixCenters
    /\ teta \in CanvasAngles
    /\ scale \in Scales
    /\ \E b \in SecondAngles, p \in MatrixPoints :
           mx = [NoWork EXCEPT !.b = b, !.p = p]
    /\ Tx = 0 /\ Ty = 0
    /\ M = NoMatrix
    /\ width_r = 0 /\ height_r = 0 /\ center_r = <<0, 0>>
    /\ windows = {}
    /\ err = ""
    /\ shifts = << >>
    /\ flipCode = 0
    /\ pts = << >>
    /\ disk = NoDisk /\ hist = NoHist /\ loc = NoLocals

\* Lines 137-140: the raw matrix of the angle.
BuildRaw ==
    /\ pc = "raw_matrix"
    /\ mx' = [mx EXCEPT !.raw = RawRotationMatrix(teta)]
    /\ pc' = "rotation_matrix"
    /\ UNCHANGED <<file, heap, original, translated, rotated, resized, reflected,
                   width, height, Tx, Ty, teta, scale, M, center, width_r,
                   height_r, center_r, windows, err, shifts, flipCode, pts,
                   image_path, filename, image, par>>
    /\ UNCHANGED <<disk, hist, loc>>

\* Lines 151-152: the matrix of the rotation about the center, and where it
\* takes the center.
BuildRotation ==
    /\ pc = "rotation_matrix"
    /\ LET R == getRotationMatrix2D(<<2 * center[1], 2 * center[2]>>, teta, scale)
       IN  /\ M' = R
           /\ mx' = [mx EXCEPT !.c = Apply(R, center[1], center[2])]
    /\ pc' = "second_matrix"
    /\ UNCHANGED <<file, heap, original, translated, rotated, resized, reflected,
                   width, height, Tx, Ty, teta, scale, center, width_r,
                   height_r, center_r, windows, err, shifts, flipCode, pts,
                   image_path, filename, image, par>>
    /\ UNCHANGED <<disk, hist, loc>>

\* A second rotation about the same center, of scale 1.
BuildSecond ==
    /\ pc = "second_matrix"
    /\ mx' = [mx EXCEPT !.m2 = getRotationMatrix2D(<<2 * center[1], 2 * center[2]>>,
                                                  mx.b, SCALE)]
    /\ pc' = "compose"
    /\ UNCHANGED <<file, heap, original, translated, rotated, resized, reflected,
                   width, height, Tx, Ty, teta, scale, M, center, width_r,
                   height_r, center_r, windows, err, shifts, flipCode, pts,
                   image_path, filename, image, par>>
    /\ UNCHANGED <<disk, hist, loc>>

\* The product of the two, and its image of the point.
ComposeRotations ==
    /\ pc = "compose"
    /\ LET C == Compose(M, mx.m2)
       IN  mx' = [mx EXCEPT !.composed = C, !.q = Apply(C, mx.p[1], mx.p[2])]
    /\ pc' = "composed"
    /\ UNCHANGED <<file, heap, original, translated, rotated, resized, reflected,
                   width, height, Tx, Ty, teta, scale, M, center, width_r,
                   height_r, center_r, windows, err, shifts, flipCode, pts,
                   image_path, filename, image, par>>
    /\ UNCHANGED <<disk, hist, loc>>

NextMatrix ==
    \/ BuildRaw
    \/ BuildRotation
    \/ BuildSecond
    \/ ComposeRotations

SpecMatrix == InitMatrix /\ [][NextMatrix]_vars

(***************************************************************************)
(* One call cv2.warpAffine(original, M, (width, height)) of line 96 as the *)
(* library runs it: the destination pixels are shared out among workers,   *)
(* each worker computes its own pixels one after the other from the        *)
(* source, and the workers' steps interleave in any order.  par.src keeps  *)
(* the source as it was when the call began.                               *)
(***************************************************************************)
Workers == {1, 2}

WarpDims == 1 .. MaxDim - 1

WarpMatrices(w, h) ==
    {TranslationMatrix(1, 0),
     getRotationMatrix2D(<<2 * (w \div 2), 2 * (h \div 2)>>, ScriptTeta, SCALE),
     ScalingMatrix(SCALE \div 2)}

RowMajorLess(p, q) == p[2] < q[2] \/ (p[2] = q[2] /\ p[1] < q[1])

\* Every worker takes every destination pixel.
OwnedByAll(k) == DOMAIN par.owner

\* The destination pixels of worker k.
Owned(k) == {p \in DOMAIN par.owner : par.owner[p] = k}

\* The pixels worker k has still to compute, and the first of them.
Pending(k) == Owned(k) \ par.done[k]

NextPixel(k) ==
    CHOOSE p \in Pending(k) : \A q \in Pending(k) : q = p \/ RowMajorLess(p, q)

InitWarp ==
    /\ pc = "warp"
    /\ file \in {Labelled(w, h) : w \in WarpDims, h \in WarpDims}
    /\ image_path = "image.png"
    /\ filename = "" /\ image = 0 /\ mx = NoWork
    /\ heap = [i \in BufIds |-> IF i = 1 THEN file ELSE None]
    /\ original = 1
    /\ translated = 0 /\ rotated = 0 /\ resized = 0 /\ reflected = 0
    /\ width = file.width /\ height = file.height
    /\ M \in WarpMatrices(width, height)
    /\ \E o \in [Coords(width, height) -> Workers] :
           par = [src |-> file, owner |-> o, done |-> [k \in Workers |-> {}],
                  dst |-> << >>, writes |-> [p \in Coords(width, height) |-> 0]]
    /\ center = <<0, 0>> /\ teta = 0 /\ scale = 0
    /\ Tx = 0 /\ Ty = 0
    /\ width_r = 0 /\ height_r = 0 /\ center_r = <<0, 0>>
    /\ windows = {"Original"}
    /\ err = ""
    /\ shifts = << >>
    /\ flipCode = 0
    /\ pts = << >>
    /\ disk = NoDisk /\ hist = NoHist /\ loc = NoLocals

\* Worker k computes its next destination pixel: the source sampled at the
\* inverse image of the pixel, written to the destination.
WorkerStep(k) ==
    /\ pc = "warp"
    /\ Pending(k) # {}
    /\ LET p == NextPixel(k)
           q == Apply(invertAffineTransform(M), p[1], p[2])
           v == SampleLinear(heap[original], q[1], q[2])
       IN  par' = [par EXCEPT
                     !.done[k] = @ \cup {p},
                     !.dst = [r \in DOMAIN par.dst \cup {p} |->
                                 IF r = p THEN v ELSE par.dst[r]],
                     !.writes[p] = @ + 1]
    /\ UNCHANGED <<pc, file, heap, original, translated, rotated, resized,
                   reflected, width, height, Tx, Ty, teta, scale, M, center,
                   width_r, height_r, center_r, windows, err, shifts, flipCode,
                   pts, image_path, filename, image, mx>>
    /\ UNCHANGED <<disk, hist, loc>>

\* All workers have finished: the call returns the destination.
WarpJoin ==
    /\ pc = "warp"
    /\ \A k \in Workers : Pending(k) = {}
    /\ translated' = FreeId(heap)
    /\ heap' = Rebind(heap, translated, Raster(width, height, par.dst))
    /\ pc' = "warped"
    /\ UNCHANGED <<file, original, rotated, resized, reflected, width, height,
                   Tx, Ty, teta, scale, M, center, width_r, height_r, center_r,
                   windows, err, shifts, flipCode, pts, image_path, filename,
                   image, mx, par>>
    /\ UNCHANGED <<disk, hist, loc>>

NextWarp ==
    \/ \E k \in Workers : WorkerStep(k)
    \/ WarpJoin

SpecWarp == InitWarp /\ [][NextWarp]_vars

(***************************************************************************)
(* main() of histogram.py.  Its rasters have three channels: a pixel is    *)
(* <<b, g, r>>, each channel in 0 .. 255; a raster of one channel has      *)
(* integer pixels.                                                         *)
(***************************************************************************)
image1_path == "../99_Images/contrast1.jpg"

image2_path == "../99_Images/contrast2.jpg"

image3_path == "../99_Images/contrast3.jpg"

image4_path == "../99_Images/bgr-led.jpg"

HistPaths == <<image1_path, image2_path, image3_path, image4_path>>

Colours == <<<<255, 0, 0>>, <<0, 255, 0>>, <<0, 0, 255>>, <<255, 255, 255>>>>

Coloured(w, h) ==
    Raster(w, h, [p \in Coords(w, h) |-> Colours[1 + ((p[1] + 2 * p[2]) % Len(Colours))]])

Greyish(w, h) ==
    Raster(w, h, [p \in Coords(w, h) |->
                     <<100 + 50 * p[1], 100 + 50 * p[1], 100 + 50 * p[2]>>])

\* What a path of histogram.py may hold: no readable image, or a raster.
HistFiles == {None, Coloured(MaxDim - 1, 1), Greyish(1, MaxDim - 1)}

\* cv2.COLOR_BGR2GRAY on one pixel: Y = 0.299 R + 0.587 G + 0.114 B in the
\* 14-bit fixed point of the library.
BGR2GRAY(q) == (q[3] * 4899 + q[2] * 9617 + q[1] * 1868 + 8192) \div 16384

\* cv2.cvtColor(src, cv2.COLOR_BGR2GRAY)
cvtColorGray(src) ==
    Raster(src.width, src.height, [p \in DOMAIN src.px |-> BGR2GRAY(src.px[p])])

\* cv2.split(src): the three rasters of one channel.
split(src) ==
    [c \in 1 .. 3 |->
        Raster(src.width, src.height, [p \in DOMAIN src.px |-> src.px[p][c]])]

\* np.zeros((h, w)) with the rows lo .. hi - 1 set to 255.
RowMask(w, h, lo, hi) ==
    Raster(w, h, [p \in Coords(w, h) |-> IF p[2] >= lo /\ p[2] < hi THEN 255 ELSE 0])

\* cv2.calcHist([img], [0], mask, [256], [0, 256]): the number of pixels of
\* each value, counted where the mask is not zero; mask None counts all.
calcHist(img, mask) ==
    [v \in 0 .. 255 |->
        Cardinality({p \in DOMAIN img.px :
                        img.px[p] = v /\ (mask = None \/ mask.px[p] # 0)})]

\* The locals of main before it has bound any of them.
UnboundHist ==
    [low_contrast |-> None, high_contrast |-> None, variable_contrast |-> None,
     image |-> None,
     low_contrast_gray |-> None, high_contrast_gray |-> None,
     variable_contrast_gray |-> None, image_gray |-> None,
     mask1 |-> None, mask2 |-> None, mask3 |-> None,
     channels |-> << >>,
     low_contrast_hist |-> << >>, high_contrast_hist |-> << >>,
     variable_contrast_hist1 |-> << >>, variable_contrast_hist2 |-> << >>,
     variable_contrast_hist3 |-> << >>,
     blue_hist |-> << >>, green_hist |-> << >>, red_hist |-> << >>,
     rgb_hist |-> << >>, image_hist |-> << >>]

InitHistogram ==
    /\ pc = "h_imread_contrast"
    /\ disk \in [{HistPaths[k] : k \in 1 .. 4} -> HistFiles]
    /\ hist = UnboundHist
    /\ loc = NoLocals
    /\ file = None
    /\ image_path = MissingPath
    /\ filename = "" /\ image = 0 /\ mx = NoWork /\ par = NoWarp
    /\ heap = [i \in BufIds |-> None]
    /\ original = 0 /\ translated = 0 /\ rotated = 0 /\ resized = 0 /\ reflected = 0
    /\ width = 0 /\ height = 0 /\ Tx = 0 /\ Ty = 0 /\ teta = 0 /\ scale = 0
    /\ M = NoMatrix
    /\ center = <<0, 0>> /\ width_r = 0 /\ height_r = 0 /\ center_r = <<0, 0>>
    /\ windows = {}
    /\ err = ""
    /\ shifts = << >>
    /\ flipCode = 0
    /\ pts = << >>

\* What every action of histogram.py leaves alone.
otherScripts ==
    <<file, heap, original, translated, rotated, resized, reflected, width,
      height, Tx, Ty, teta, scale, M, center, width_r, height_r, center_r,
      shifts, flipCode, pts, image_path, image, mx, par, loc>>

\* Lines 69-78: the two contrast images are loaded, then each is checked.
HistLoadContrast ==
    /\ pc = "h_imread_contrast"
    /\ hist' = [hist EXCEPT !.low_contrast = disk[image1_path],
                            !.high_contrast = disk[image2_path]]
    /\ IF disk[image1_path] = None
       THEN pc' = "raised" /\ err' = "FileNotFoundError" /\ filename' = image1_path
       ELSE IF disk[image2_path] = None
       THEN pc' = "raised" /\ err' = "FileNotFoundError" /\ filename' = image2_path
       ELSE pc' = "h_low_contrast" /\ UNCHANGED <<err, filename>>
    /\ UNCHANGED <<disk, windows, otherScripts>>

\* Lines 88-101: the first image is shown, converted and histogrammed.
HistLowContrast ==
    /\ pc = "h_low_contrast"
    /\ windows' = windows \cup {"Low Contrast"}
    /\ LET gray == cvtColorGray(hist.low_contrast)
       IN  hist' = [hist EXCEPT !.low_contrast_gray = gray,
                                !.low_contrast_hist = calcHist(gray, None)]
    /\ pc' = "h_high_contrast"
    /\ UNCHANGED <<disk, err, filename, otherScripts>>

\* Lines 113-124: the second image is shown, converted and histogrammed;
\* after plt.show() all windows are destroyed.
HistHighContrast ==
    /\ pc = "h_high_contrast"
    /\ LET gray == cvtColorGray(hist.high_contrast)
       IN  hist' = [hist EXCEPT !.high_contrast_gray = gray,
                                !.high_contrast_hist = calcHist(gray, None)]
    /\ windows' = {}
    /\ pc' = "h_imread_variable"
    /\ UNCHANGED <<disk, err, filename, otherScripts>>

\* Lines 139-142: the third image is loaded and checked.
HistLoadVariable ==
    /\ pc = "h_imread_variable"
    /\ hist' = [hist EXCEPT !.variable_contrast = disk[image3_path]]
    /\ IF disk[image3_path] = None
       THEN pc' = "raised" /\ err' = "FileNotFoundError" /\ filename' = image3_path
       ELSE pc' = "h_variable_contrast" /\ UNCHANGED <<err, filename>>
    /\ UNCHANGED <<disk, windows, otherScripts>>

\* Lines 145-173: the third image is shown, the three row masks are made,
\* the image is converted and histogrammed under each mask; all windows are
\* destroyed.
HistVariableContrast ==
    /\ pc = "h_variable_contrast"
    /\ LET src == hist.variable_contrast
           m1 == RowMask(src.width, src.height, 0, 99)
           m2 == RowMask(src.width, src.height, 102, 288)
           m3 == RowMask(src.width, src.height, 291, src.height)
           gray == cvtColorGray(src)
       IN  hist' = [hist EXCEPT !.mask1 = m1, !.mask2 = m2, !.mask3 = m3,
                                !.variable_contrast_gray = gray,
                                !.variable_contrast_hist1 = calcHist(gray, m1),
                                !.variable_contrast_hist2 = calcHist(gray, m2),
                                !.variable_contrast_hist3 = calcHist(gray, m3)]
    /\ windows' = {}
    /\ pc' = "h_imread_image"
    /\ UNCHANGED <<disk, err, filename, otherScripts>>

\* Lines 199-202: image = cv2.imread(image4_path), and the test
\* `variable_contrast is None`.
HistLoadImage ==
    /\ pc = "h_imread_image"
    /\ hist' = [hist EXCEPT !.image = disk[image4_path]]
    /\ IF hist.variable_contrast = None
       THEN pc' = "raised" /\ err' = "FileNotFoundError" /\ filename' = image4_path
       ELSE pc' = "h_channels" /\ UNCHANGED <<err, filename>>
    /\ UNCHANGED <<disk, windows, otherScripts>>

\* Lines 203-234: the fourth image is shown, split, histogrammed by channel
\* and as a gray image; all windows are destroyed and main returns.
\* cv2.imshow raises cv2.error on None and opens no window.
HistChannels ==
    /\ pc = "h_channels"
    /\ IF hist.image = None
       THEN /\ pc' = "raised"
            /\ err' = "cv2.error"
            /\ UNCHANGED <<hist, windows>>
       ELSE /\ LET ch == split(hist.image)
                   bh == calcHist(ch[1], None)
                   gh == calcHist(ch[2], None)
                   rh == calcHist(ch[3], None)
                   gray == cvtColorGray(hist.image)
               IN  hist' = [hist EXCEPT
                              !.channels = ch,
                              !.blue_hist = bh, !.green_hist = gh, !.red_hist = rh,
                              !.rgb_hist = [v \in 0 .. 255 |-> bh[v] + gh[v] + rh[v]],
                              !.image_gray = gray,
                              !.image_hist = calcHist(gray, None)]
            /\ windows' = {}
            /\ pc' = "done"
            /\ err' = err
    /\ UNCHANGED <<disk, filename, otherScripts>>

NextHistogram ==
    \/ HistLoadContrast
    \/ HistLowContrast
    \/ HistHighContrast
    \/ HistLoadVariable
    \/ HistVariableContrast
    \/ HistLoadImage
    \/ HistChannels

SpecHistogram == InitHistogram /\ [][NextHistogram]_vars

(***************************************************************************)
(* main() of image.py, next to main() of transformation.py: either script  *)
(* is started on the path.  A raster of image.py is followed at its        *)
(* tracked pixels: px is defined on the tracked <<x, y>> that lie inside   *)
(* it.  A local name holds the id of its array, 0 while it is unbound;     *)
(* roi holds a view, which owns no array.                                  *)
(***************************************************************************)

\* The buffer cells of the heap of image.py, which keeps seventeen arrays
\* alive at once.
ImageBufIds == 1 .. 3 * MaxBufs + 2

\* The pixels of the loaded image that are followed: at least one inside and
\* one outside every region main reads or writes.
Followed ==
    {<<0, 0>>, <<50, 250>>, <<99, 299>>, <<87, 50>>, <<188, 148>>, <<100, 100>>,
     <<161, 0>>, <<0, 161>>, <<161, 161>>, <<199, 259>>, <<160, 160>>,
     <<240, 100>>, <<96, 59>>, <<179, 139>>}

\* A decoded colour image of w x h whose tracked pixels are primaries.
Photo(w, h, k) ==
    Raster(w, h, [p \in {q \in Followed : q[1] < w /\ q[2] < h} |->
                     Colours[1 + ((p[1] + p[2] + k) % Len(Colours))]])

\* What the path of image.py may hold: no readable image, or an image large
\* enough for every index of main, or one that some index of main leaves.
ImageFiles ==
    {None} \cup {Photo(s[1], s[2], k) :
                    s \in {<<320, 320>>, <<250, 260>>, <<200, 260>>,
                           <<200, 150>>, <<120, 120>>},
                    k \in 0 .. 2}

\* a[y0:y1, x0:x1] of the array id: a view of its buffer, the slice clipped
\* to the array as numpy clips it.
Slice(h, id, y0, y1, x0, x1) ==
    [base |-> id,
     x0 |-> Min(x0, h[id].width), y0 |-> Min(y0, h[id].height),
     width |-> Max(Min(x1, h[id].width) - Min(x0, h[id].width), 0),
     height |-> Max(Min(y1, h[id].height) - Min(y0, h[id].height), 0)]

\* The raster a view shows: the pixels of its base, read through the view.
Through(h, v) ==
    Raster(v.width, v.height,
           [p \in {<<q[1] - v.x0, q[2] - v.y0>> :
                      q \in {t \in DOMAIN h[v.base].px :
                                /\ t[1] >= v.x0 /\ t[1] < v.x0 + v.width
                                /\ t[2] >= v.y0 /\ t[2] < v.y0 + v.height}} |->
               h[v.base].px[<<p[1] + v.x0, p[2] + v.y0>>]])

\* a[y, x] = v
SetPixel(r, x, y, v) ==
    [r EXCEPT !.px = [p \in DOMAIN r.px |-> IF p = <<x, y>> THEN v ELSE r.px[p]]]

\* a[y0:y1, x0:x1] = v
Fill(r, y0, y1, x0, x1, v) ==
    [r EXCEPT !.px = [p \in DOMAIN r.px |->
                         IF p[1] >= x0 /\ p[1] < x1 /\ p[2] >= y0 /\ p[2] < y1
                         THEN v ELSE r.px[p]]]

\* a[y0:y0 + src.height, x0:x0 + src.width] = src
Paste(r, y0, x0, src) ==
    [r EXCEPT !.px = [p \in DOMAIN r.px |->
                         IF <<p[1] - x0, p[2] - y0>> \in DOMAIN src.px
                         THEN src.px[<<p[1] - x0, p[2] - y0>>] ELSE r.px[p]]]

\* np.hstack(s): the rasters of s side by side, left to right.
RECURSIVE hstack(_)
hstack(s) ==
    IF Len(s) = 1 THEN s[1]
    ELSE LET a == s[1]
             b == hstack(Tail(s))
         IN Raster(a.width + b.width, a.height,
                   [p \in DOMAIN a.px \cup {<<q[1] + a.width, q[2]>> : q \in DOMAIN b.px} |->
                       IF p \in DOMAIN a.px THEN a.px[p]
                       ELSE b.px[<<p[1] - a.width, p[2]>>]])

\* cv2.copyMakeBorder(src, n, n, n, n, borderType, value): src moved by
\* <<n, n>> inside a frame of n pixels.  Of the frame its corner <<0, 0>> is
\* followed: it is value under BORDER_CONSTANT, and otherwise the pixel of
\* src the border type reads, when that pixel is followed.
copyMakeBorder(src, n, borderType, value) ==
    LET from == CASE borderType = "BORDER_REFLECT" -> <<n - 1, n - 1>>
                  [] borderType = "BORDER_REPLICATE" -> <<0, 0>>
                  [] borderType = "BORDER_WRAP" -> <<src.width - n, src.height - n>>
                  [] OTHER -> <<-1, -1>>
        corner == IF borderType = "BORDER_CONSTANT" \/ from \in DOMAIN src.px
                  THEN {<<0, 0>>} ELSE {}
    IN Raster(src.width + 2 * n, src.height + 2 * n,
              [p \in {<<q[1] + n, q[2] + n>> : q \in DOMAIN src.px} \cup corner |->
                  IF p[1] >= n /\ p[2] >= n THEN src.px[<<p[1] - n, p[2] - n>>]
                  ELSE IF borderType = "BORDER_CONSTANT" THEN value
                  ELSE src.px[from]])

\* One pixel under a conversion code of cv2.cvtColor, 8 bits a channel: RGB
\* exchanges the first and the third channel; HLS is <<H / 2, 255 L, 255 S>>
\* and LAB is <<255 L / 100, a + 128, b + 128>>, given for the primaries.
Convert(code, q) ==
    CASE code = "COLOR_BGR2RGB" -> <<q[3], q[2], q[1]>>
      [] code = "COLOR_GRAY2BGR" -> <<q, q, q>>
      [] code = "COLOR_BGR2GRAY" -> BGR2GRAY(q)
      [] code = "COLOR_BGR2HLS" ->
            (CASE q = <<255, 0, 0>> -> <<120, 128, 255>>
               [] q = <<0, 255, 0>> -> <<60, 128, 255>>
               [] q = <<0, 0, 255>> -> <<0, 128, 255>>
               [] q = <<255, 255, 255>> -> <<0, 255, 0>>)
      [] code = "COLOR_BGR2LAB" ->
            (CASE q = <<255, 0, 0>> -> <<82, 207, 20>>
               [] q = <<0, 255, 0>> -> <<224, 42, 211>>
               [] q = <<0, 0, 255>> -> <<136, 208, 195>>
               [] q = <<255, 255, 255>> -> <<255, 128, 128>>)

\* cv2.cvtColor(src, code)
cvtColor(src, code) ==
    Raster(src.width, src.height, [p \in DOMAIN src.px |-> Convert(code, src.px[p])])

\* cv2.merge((c1, c2, c3))
merge(c1, c2, c3) ==
    Raster(c1.width, c1.height,
           [p \in DOMAIN c1.px |-> <<c1.px[p], c2.px[p], c3.px[p]>>])

\* name = <new array r>, on the pair st of the heap and the local names.
Assign(st, name, r) ==
    [heap |-> Rebind(st.heap, st.loc[name], r),
     loc |-> [st.loc EXCEPT ![name] = FreeId(st.heap)]]

\* name = a, a the array id: the name is bound to the array itself.
ndarrayAlias(st, name, id) ==
    [heap |-> st.heap, loc |-> [st.loc EXCEPT ![name] = id]]

\* name = a.copy(), a the array id: a new array with the pixels of a.
ndarrayCopy(st, name, id) == Assign(st, name, st.heap[id])

\* The local names of main before the load.
ImageLocals ==
    [copy |-> 0, stacked |-> 0,
     roi |-> [base |-> 0, x0 |-> 0, y0 |-> 0, width |-> 0, height |-> 0],
     constant |-> 0, reflect |-> 0, replicate |-> 0, wrap |-> 0, padding |-> 0,
     rgb |-> 0, color |-> 0, gray |-> 0, bgr |-> 0,
     b |-> 0, g |-> 0, r |-> 0, merged |-> 0, zeros |-> 0]

InitImage ==
    /\ pc = "image_imread"
    /\ image_path \in Paths
    /\ file \in IF image_path = MissingPath THEN {None} ELSE ImageFiles
    /\ filename = "" /\ image = 0 /\ mx = NoWork /\ par = NoWarp
    /\ heap = [i \in ImageBufIds |-> None]
    /\ original = 0 /\ translated = 0 /\ rotated = 0 /\ resized = 0 /\ reflected = 0
    /\ width = 0 /\ height = 0 /\ Tx = 0 /\ Ty = 0 /\ teta = 0 /\ scale = 0
    /\ M = NoMatrix
    /\ center = <<0, 0>> /\ width_r = 0 /\ height_r = 0 /\ center_r = <<0, 0>>
    /\ windows = {}
    /\ err = ""
    /\ shifts = << >>
    /\ flipCode = 0
    /\ pts = << >>
    /\ disk = NoDisk /\ hist = NoHist /\ loc = ImageLocals

\* The variables main of image.py leaves alone once the image is loaded.
otherImage ==
    <<file, original, translated, rotated, resized, reflected, Tx, Ty, teta,
      scale, M, center, width_r, height_r, center_r, shifts, flipCode, pts,
      image_path, filename, image, mx, par, hist>>

\* image.py lines 70-74: image = cv2.imread(image_path); FileNotFoundError
\* with the path when it is None.
ImageLoad ==
    /\ pc = "image_imread"
    /\ IF file = None
       THEN /\ pc' = "raised"
            /\ err' = "FileNotFoundError"
            /\ filename' = image_path
            /\ UNCHANGED <<heap, image>>
       ELSE /\ pc' = "image_print"
            /\ image' = FreeId(heap)
            /\ heap' = Rebind(heap, 0, file)
            /\ UNCHANGED <<err, filename>>
    /\ UNCHANGED <<file, original, translated, rotated, resized, reflected,
                   width, height, Tx, Ty, teta, scale, M, center, width_r,
                   height_r, center_r, windows, shifts, flipCode, pts,
                   image_path, mx, par>>
    /\ UNCHANGED <<disk, hist, loc>>

\* image.py lines 77-88: the raster is printed and its shape is kept.
ImagePrint ==
    /\ pc = "image_print"
    /\ width' = heap[image].width
    /\ height' = heap[image].height
    /\ pc' = "image_show"
    /\ UNCHANGED <<heap, windows, err, disk, loc, otherImage>>

\* image.py lines 91-102: cv2.imshow("Image", image) and the wait for a key.
ImageShow ==
    /\ pc = "image_show"
    /\ windows' = windows \cup {"Image"}
    /\ pc' = "image_pixel"
    /\ UNCHANGED <<heap, width, height, err, disk, loc, otherImage>>

\* Lines 106-123: a pixel and an interval of image are printed; copy is a
\* copy of image, its pixel <<0, 0>> is made red and its region blue; image
\* and copy are shown side by side.
ImageCopy ==
    /\ pc = "image_pixel"
    /\ LET s1 == ndarrayCopy([heap |-> heap, loc |-> loc], "copy", image)
           c == s1.loc.copy
           h2 == [s1.heap EXCEPT
                     ![c] = Fill(SetPixel(@, 0, 0, <<0, 0, 255>>),
                                 250, 300, 50, 100, <<255, 0, 0>>)]
           s3 == Assign([heap |-> h2, loc |-> s1.loc], "stacked",
                        hstack(<<h2[image], h2[c]>>))
       IN heap' = s3.heap /\ loc' = s3.loc
    /\ windows' = windows \cup {"Image"}
    /\ pc' = "image_roi"
    /\ UNCHANGED <<width, height, err, disk, otherImage>>

\* Lines 128-132: roi is a view of image and is shown; cv2.imshow raises
\* cv2.error on an empty array.
ImageRoi ==
    /\ pc = "image_roi"
    /\ loc' = [loc EXCEPT !.roi = Slice(heap, image, 50, 149, 87, 189)]
    /\ IF loc'.roi.width = 0 \/ loc'.roi.height = 0
       THEN pc' = "raised" /\ err' = "cv2.error" /\ UNCHANGED windows
       ELSE pc' = "image_padding" /\ windows' = windows \cup {"Image"} /\ UNCHANGED err
    /\ UNCHANGED <<heap, width, height, disk, otherImage>>

\* Lines 136-146: the four borders of roi, shown side by side, and
\* cv2.destroyAllWindows().
ImagePadding ==
    /\ pc = "image_padding"
    /\ LET src == Through(heap, loc.roi)
           s1 == Assign([heap |-> heap, loc |-> loc], "constant",
                        copyMakeBorder(src, 10, "BORDER_CONSTANT", <<0, 0, 255>>))
           s2 == Assign(s1, "reflect", copyMakeBorder(src, 10, "BORDER_REFLECT", 0))
           s3 == Assign(s2, "replicate", copyMakeBorder(src, 10, "BORDER_REPLICATE", 0))
           s4 == Assign(s3, "wrap", copyMakeBorder(src, 10, "BORDER_WRAP", 0))
           s5 == Assign(s4, "padding",
                        hstack(<<s4.heap[s4.loc.constant], s4.heap[s4.loc.reflect],
                                 s4.heap[s4.loc.replicate], s4.heap[s4.loc.wrap]>>))
       IN heap' = s5.heap /\ loc' = s5.loc
    /\ windows' = {}
    /\ pc' = "image_rgb"
    /\ UNCHANGED <<width, height, err, disk, otherImage>>

\* Lines 151-169: image and its RGB conversion are plotted.
ImageRgb ==
    /\ pc = "image_rgb"
    /\ LET s1 == Assign([heap |-> heap, loc |-> loc], "rgb",
                        cvtColor(heap[image], "COLOR_BGR2RGB"))
       IN heap' = s1.heap /\ loc' = s1.loc
    /\ pc' = "image_color"
    /\ UNCHANGED <<windows, width, height, err, disk, otherImage>>

\* a[y0:y1, x0:x1] = cv2.cvtColor(a[y0:y1, x0:x1], code), a the array id.
ConvertRegion(h, id, y0, y1, x0, x1, code) ==
    LET v == Slice(h, id, y0, y1, x0, x1)
    IN [h EXCEPT ![id] = Paste(@, v.y0, v.x0, cvtColor(Through(h, v), code))]

\* Lines 173-178: color is a copy of image; three of its regions are
\* converted in place, one after the other, and it is shown.  cv2.cvtColor
\* raises cv2.error on an empty region.
ImageColor ==
    /\ pc = "image_color"
    /\ LET s1 == ndarrayCopy([heap |-> heap, loc |-> loc], "color", image)
           c == s1.loc.color
           wd == s1.heap[c].width
           ht == s1.heap[c].height
           h2 == ConvertRegion(s1.heap, c, 0, 160, 161, 320, "COLOR_BGR2RGB")
           h3 == ConvertRegion(h2, c, 161, 320, 0, 160, "COLOR_BGR2HLS")
           h4 == ConvertRegion(h3, c, 161, 320, 161, 320, "COLOR_BGR2LAB")
       IN /\ loc' = s1.loc
          /\ IF wd <= 161
             THEN heap' = s1.heap /\ pc' = "raised" /\ err' = "cv2.error"
                  /\ UNCHANGED windows
             ELSE IF ht <= 161
             THEN heap' = h2 /\ pc' = "raised" /\ err' = "cv2.error"
                  /\ UNCHANGED windows
             ELSE heap' = h4 /\ pc' = "image_gray" /\ UNCHANGED err
                  /\ windows' = windows \cup {"Image"}
    /\ UNCHANGED <<width, height, disk, otherImage>>

\* Lines 184-195: the grey conversion of image and its conversion back are
\* shown, and cv2.destroyAllWindows().
ImageGray ==
    /\ pc = "image_gray"
    /\ LET s1 == Assign([heap |-> heap, loc |-> loc], "gray",
                        cvtColor(heap[image], "COLOR_BGR2GRAY"))
           s2 == Assign(s1, "bgr", cvtColor(s1.heap[s1.loc.gray], "COLOR_GRAY2BGR"))
       IN heap' = s2.heap /\ loc' = s2.loc
    /\ windows' = {}
    /\ pc' = "image_split"
    /\ UNCHANGED <<width, height, err, disk, otherImage>>

\* Lines 200-214: column 240 of image, gray and bgr is printed, an
\* IndexError when the image has no such column; roi is split and merged
\* again, both are shown in two windows, and cv2.destroyAllWindows().
ImageSplit ==
    /\ pc = "image_split"
    /\ IF heap[image].width <= 240
       THEN /\ pc' = "raised" /\ err' = "IndexError"
            /\ UNCHANGED <<heap, loc, windows>>
       ELSE /\ LET src == Through(heap, loc.roi)
                   s1 == Assign([heap |-> heap, loc |-> loc], "b", split(src)[1])
                   s2 == Assign(s1, "g", split(src)[2])
                   s3 == Assign(s2, "r", split(src)[3])
                   s4 == Assign(s3, "merged",
                                merge(s3.heap[s3.loc.b], s3.heap[s3.loc.g],
                                      s3.heap[s3.loc.r]))
                   s5 == Assign(s4, "stacked", hstack(<<src, s4.heap[s4.loc.merged]>>))
                   s6 == Assign(s5, "stacked",
                                hstack(<<s5.heap[s5.loc.b], s5.heap[s5.loc.g],
                                         s5.heap[s5.loc.r]>>))
               IN heap' = s6.heap /\ loc' = s6.loc
            /\ windows' = {}
            /\ pc' = "image_channels"
            /\ UNCHANGED err
    /\ UNCHANGED <<width, height, disk, otherImage>>

\* Lines 226-248: each channel of roi is merged with zeros into a colour
\* raster; the five rasters are shown side by side and written to
\* output_image.jpg, and cv2.destroyAllWindows().
ImageChannels ==
    /\ pc = "image_channels"
    /\ height' = loc.roi.height
    /\ width' = loc.roi.width
    /\ LET src == Through(heap, loc.roi)
           s1 == Assign([heap |-> heap, loc |-> loc], "zeros",
                        Raster(width', height', [p \in DOMAIN src.px |-> 0]))
           z == s1.heap[s1.loc.zeros]
           s2 == Assign(s1, "b", merge(s1.heap[s1.loc.b], z, z))
           s3 == Assign(s2, "g", merge(z, s2.heap[s2.loc.g], z))
           s4 == Assign(s3, "r", merge(z, z, s3.heap[s3.loc.r]))
           s5 == Assign(s4, "stacked",
                        hstack(<<src, s4.heap[s4.loc.b], s4.heap[s4.loc.g],
                                 s4.heap[s4.loc.r], s4.heap[s4.loc.merged]>>))
       IN /\ heap' = s5.heap /\ loc' = s5.loc
          /\ disk' = [f \in {"output_image.jpg"} |-> s5.heap[s5.loc.stacked]]
    /\ windows' = {}
    /\ pc' = "done"
    /\ UNCHANGED <<err, otherImage>>

NextImage ==
    \/ ImageLoad
    \/ ImagePrint
    \/ ImageShow
    \/ ImageCopy
    \/ ImageRoi
    \/ ImagePadding
    \/ ImageRgb
    \/ ImageColor
    \/ ImageGray
    \/ ImageSplit
    \/ ImageChannels

InitScripts == Init \/ InitImage

NextScripts == Next \/ NextImage

SpecScripts == InitScripts /\ [][NextScripts]_vars

\* main() of image.py alone.
SpecImage == InitImage /\ [][NextImage]_vars

(***************************************************************************)
(* main() of drawing.py.  The canvas is followed at pixels that lie well   *)
(* inside or well outside every shape main draws; every drawing call       *)
(* writes the array of image in place.                                     *)
(***************************************************************************)
DrawFollowed ==
    {<<0, 0>>, <<2, 150>>, <<20, 20>>, <<150, 150>>, <<178, 50>>, <<252, 195>>,
     <<52, 183>>, <<150, 270>>, <<200, 280>>}

\* cv2.line(img, p1, p2, color, thickness): the pixels within half the
\* thickness of the segment take the color.
line(img, p1, p2, color, thickness) ==
    LET dx == p2[1] - p1[1]
        dy == p2[2] - p1[2]
        len2 == dx * dx + dy * dy
        along(p) == Max(0, Min(len2, (p[1] - p1[1]) * dx + (p[2] - p1[2]) * dy))
        ex(p) == p[1] - (p1[1] + (dx * along(p)) \div len2)
        ey(p) == p[2] - (p1[2] + (dy * along(p)) \div len2)
    IN [img EXCEPT !.px = [p \in DOMAIN img.px |->
                              IF 4 * (ex(p) * ex(p) + ey(p) * ey(p)) <= thickness * thickness
                              THEN color ELSE img.px[p]]]

\* cv2.rectangle(img, p1, p2, color, thickness): the four sides.
rectangle(img, p1, p2, color, thickness) ==
    line(line(line(line(img, p1, <<p2[1], p1[2]>>, color, thickness),
                   <<p2[1], p1[2]>>, p2, color, thickness),
              p2, <<p1[1], p2[2]>>, color, thickness),
         <<p1[1], p2[2]>>, p1, color, thickness)

\* cv2.circle(img, c, radius, color, -1): the filled disc.
circle(img, c, radius, color) ==
    [img EXCEPT !.px = [p \in DOMAIN img.px |->
                           IF (p[1] - c[1]) * (p[1] - c[1]) + (p[2] - c[2]) * (p[2] - c[2])
                                  <= radius * radius
                           THEN color ELSE img.px[p]]]

\* cv2.ellipse(img, c, axes, angle, 0, 360, color, thickness): the outline
\* of the ellipse of half axes axes turned by angle degrees about c.  With
\* <<u, v>> the pixel in the frame of the ellipse, the pixel is on the
\* outline when (u / a)^2 + (v / b)^2 is within thickness / b of 1.
ellipse(img, c, axes, angle, color, thickness) ==
    LET a == axes[1]
        b == axes[2]
        u(p) == (p[1] - c[1]) * Cos(angle) + (p[2] - c[2]) * Sin(angle)
        v(p) == (p[2] - c[2]) * Cos(angle) - (p[1] - c[1]) * Sin(angle)
        f(p) == ((u(p) * b) \div SCALE) * ((u(p) * b) \div SCALE)
                    + ((v(p) * a) \div SCALE) * ((v(p) * a) \div SCALE)
        on(p) == /\ f(p) - a * a * b * b <= (a * a * b * b * thickness) \div b
                 /\ a * a * b * b - f(p) <= (a * a * b * b * thickness) \div b
    IN [img EXCEPT !.px = [p \in DOMAIN img.px |->
                              IF on(p) THEN color ELSE img.px[p]]]

\* cv2.putText(img, text, org, font, fontScale, color, thickness): the
\* pixels of the glyphs, inked, take the color.
putText(img, inked, color) ==
    [img EXCEPT !.px = [p \in DOMAIN img.px |->
                           IF p \in inked THEN color ELSE img.px[p]]]

InitDrawing ==
    /\ pc = "draw_zeros"
    /\ file = None
    /\ image_path = MissingPath
    /\ filename = "" /\ image = 0 /\ mx = NoWork /\ par = NoWarp
    /\ heap = [i \in BufIds |-> None]
    /\ original = 0 /\ translated = 0 /\ rotated = 0 /\ resized = 0 /\ reflected = 0
    /\ width = 0 /\ height = 0 /\ Tx = 0 /\ Ty = 0 /\ teta = 0 /\ scale = 0
    /\ M = NoMatrix
    /\ center = <<0, 0>> /\ width_r = 0 /\ height_r = 0 /\ center_r = <<0, 0>>
    /\ windows = {}
    /\ err = ""
    /\ shifts = << >>
    /\ flipCode = 0
    /\ pts = << >>
    /\ disk = NoDisk /\ hist = NoHist /\ loc = NoLocals

\* What main of drawing.py leaves alone.
otherDrawing ==
    <<file, original, translated, rotated, resized, reflected, width, height,
      Tx, Ty, teta, scale, M, center, width_r, height_r, center_r, err, shifts,
      flipCode, pts, image_path, filename, mx, par, disk, hist, loc>>

\* Lines 61-63: the black canvas of 300 x 300 is made and shown.
DrawCanvas ==
    /\ pc = "draw_zeros"
    /\ image' = FreeId(heap)
    /\ heap' = Rebind(heap, 0, Raster(300, 300, [p \in DrawFollowed |-> <<0, 0, 0>>]))
    /\ windows' = windows \cup {"Image"}
    /\ pc' = "draw_lines"
    /\ UNCHANGED otherDrawing

\* Lines 68-73: four red lines along the sides of the canvas.
DrawLines ==
    /\ pc = "draw_lines"
    /\ heap' = [heap EXCEPT ![image] =
                   line(line(line(line(@, <<0, 0>>, <<0, 300>>, <<0, 0, 255>>, 10),
                                  <<0, 300>>, <<300, 300>>, <<0, 0, 255>>, 10),
                             <<300, 300>>, <<300, 0>>, <<0, 0, 255>>, 10),
                        <<300, 0>>, <<0, 0>>, <<0, 0, 255>>, 10)]
    /\ windows' = windows \cup {"Image"}
    /\ pc' = "draw_rectangle"
    /\ UNCHANGED <<image, otherDrawing>>

\* Lines 80-82: a blue rectangle along the sides of the canvas.
DrawRectangle ==
    /\ pc = "draw_rectangle"
    /\ heap' = [heap EXCEPT ![image] =
                   rectangle(@, <<0, 0>>, <<300, 300>>, <<255, 0, 0>>, 10)]
    /\ windows' = windows \cup {"Image"}
    /\ pc' = "draw_circles"
    /\ UNCHANGED <<image, otherDrawing>>

\* Lines 89-94: a red disc and three green discs.
DrawCircles ==
    /\ pc = "draw_circles"
    /\ heap' = [heap EXCEPT ![image] =
                   circle(circle(circle(circle(@, <<150, 150>>, 20, <<0, 0, 255>>),
                                        <<172, 50>>, 10, <<0, 255, 0>>),
                                 <<257, 200>>, 10, <<0, 255, 0>>),
                          <<45, 180>>, 10, <<0, 255, 0>>)]
    /\ windows' = windows \cup {"Image"}
    /\ pc' = "draw_ellipses"
    /\ UNCHANGED <<image, otherDrawing>>

\* Lines 102-106: three blue ellipses about the centre of the canvas.
DrawEllipses ==
    /\ pc = "draw_ellipses"
    /\ heap' = [heap EXCEPT ![image] =
                   ellipse(ellipse(ellipse(@, <<150, 150>>, <<120, 40>>, 90, <<255, 0, 0>>, 2),
                                   <<150, 150>>, <<120, 40>>, 25, <<255, 0, 0>>, 2),
                           <<150, 150>>, <<120, 40>>, -25, <<255, 0, 0>>, 2)]
    /\ windows' = windows \cup {"Image"}
    /\ pc' = "draw_text"
    /\ UNCHANGED <<image, otherDrawing>>

\* Lines 112-114: the text "OpenCV" in white from <<190, 285>>; which
\* pixels of its box the glyphs ink is left open.  main returns after the
\* last wait for a key: the script destroys no window.
DrawText ==
    /\ pc = "draw_text"
    /\ \E inked \in SUBSET {p \in DrawFollowed : /\ p[1] >= 190 /\ p[1] < 290
                                                 /\ p[2] > 265 /\ p[2] <= 290} :
           heap' = [heap EXCEPT ![image] = putText(@, inked, <<255, 255, 255>>)]
    /\ windows' = windows \cup {"Image"}
    /\ pc' = "done"
    /\ UNCHANGED <<image, otherDrawing>>

NextDrawing ==
    \/ DrawCanvas
    \/ DrawLines
    \/ DrawRectangle
    \/ DrawCircles
    \/ DrawEllipses
    \/ DrawText

\* The four scripts: any one of them is run.
SpecAll ==
    /\ Init \/ InitImage \/ InitDrawing \/ InitHistogram
    /\ [][Next \/ NextImage \/ NextDrawing \/ NextHistogram]_vars

(***************************************************************************)
(* Properties                                                              *)
(***************************************************************************)
\* The rotation without loss has run: its result is in `rotated`.
AfterLossless == pc = "imutils_rotate"

\* The canvas has been sized and not yet been reused by the dilation.
CanvasSized == pc \in {"pre_translate", "rotate_lossless", "imutils_rotate"}

\* The nearest destination pixel of the fixed-point point q lies in the canvas.
LandsInCanvas(q) ==
    /\ Round(q[1]) >= 0 /\ Round(q[1]) <= width_r - 1
    /\ Round(q[2]) >= 0 /\ Round(q[2]) <= height_r - 1

\* The point q itself lies in [0, width_r - 1] x [0, height_r - 1].
InsideCanvas(q) ==
    /\ q[1] >= 0 /\ q[1] <= (width_r - 1) * SCALE
    /\ q[2] >= 0 /\ q[2] <= (height_r - 1) * SCALE

\* C1: for every source size and every angle, the rotation without loss
\* yields a canvas of the sizer's dimensions in which every source pixel,
\* pre-translated and rotated by the true angle about the new center, lands
\* on a pixel of the canvas: no source pixel is clipped.
C1_NoSourcePixelClipped ==
    AfterLossless =>
        /\ <<width_r, height_r>> = CanvasSize(width, height, teta)
        /\ \A p \in DOMAIN pts : LandsInCanvas(pts[p])

C8_CanvasMinimal ==
    CanvasSized =>
        <<width_r, height_r>> =
            <<Ceil(width * Abs(Cos(teta)) + height * Abs(Sin(teta))),
              Ceil(width * Abs(Sin(teta)) + height * Abs(Cos(teta)))>>

\* C9: at every multiple of 90 degrees the sizer returns the source's own
\* width and height.
C9_NoGrowthAtRightAngles ==
    (CanvasSized /\ teta % 90 = 0) => (width_r = width /\ height_r = height)

C9_Witness ==
    /\ CanvasSized /\ teta = -90 /\ width = 2 /\ height = 3
    /\ width_r = 2 /\ height_r = 3

\* Every pixel of the raster r differs from the fill color and from every
\* other pixel of r.
AllDistinct(r) ==
    \A p \in DOMAIN r.px :
        /\ r.px[p] # FillColor
        /\ \A q \in DOMAIN r.px : r.px[q] = r.px[p] => q = p

\* `translated` is original translated by (dx, dy) and then by (-dx, -dy),
\* both times into (width, height).
RoundTripDone ==
    /\ pc = "translate_enlarged"
    /\ Len(shifts) = 2
    /\ shifts[2] = <<-shifts[1][1], -shifts[1][2]>>

\* C3: translating by (dx, dy) and back by (-dx, -dy) leaves src at every
\* pixel with max(0, dx) <= x < width and max(0, dy) <= y < height, and the
\* fill color at every other pixel.
C3_RoundTripRegion ==
    RoundTripDone =>
        LET dx == shifts[1][1]
            dy == shifts[1][2]
            src == heap[original]
            dst == heap[translated]
        IN  /\ dst.width = src.width /\ dst.height = src.height
            /\ \A p \in Coords(width, height) :
                   dst.px[p] = IF p[1] >= Max(0, dx) /\ p[2] >= Max(0, dy)
                               THEN src.px[p] ELSE FillColor

\* C3, amended: the round trip leaves src at every pixel with
\* max(0, -dx) <= x < width - max(0, dx) and
\* max(0, -dy) <= y < height - max(0, dy), and the fill color at every other
\* pixel.
C3_RoundTripKeptRegion ==
    RoundTripDone =>
        LET dx == shifts[1][1]
            dy == shifts[1][2]
            src == heap[original]
            dst == heap[translated]
        IN  /\ dst.width = src.width /\ dst.height = src.height
            /\ \A p \in Coords(width, height) :
                   dst.px[p] = IF /\ p[1] >= Max(0, -dx) /\ p[1] < width - Max(0, dx)
                                  /\ p[2] >= Max(0, -dy) /\ p[2] < height - Max(0, dy)
                               THEN src.px[p] ELSE FillColor

C3_Witness ==
    /\ RoundTripDone
    /\ shifts[1] = <<1, -1>>
    /\ width = 3 /\ height = 2
    /\ AllDistinct(heap[original])
    /\ heap[translated].px[<<0, 1>>] = heap[original].px[<<0, 1>>]
    /\ heap[translated].px[<<2, 1>>] = FillColor
    /\ heap[translated].px[<<0, 0>>] = FillColor

\* C4: translate(src, 0, 0) and rotate(src, 0) about the center into the
\* source's size each return a raster of src's dimensions, pixel-equal to src.
C4_Identity ==
    /\ (pc = "translate_again" /\ Tx = 0 /\ Ty = 0) => heap[translated] = heap[original]
    /\ (pc = "rotate_raw" /\ Tx = 0 /\ Ty = 0) => heap[translated] = heap[original]
    /\ (pc = "size_canvas" /\ teta = 0) => heap[rotated] = heap[original]

C4_Witness ==
    /\ pc = "size_canvas" /\ teta = 0 /\ Tx = 0 /\ Ty = 0
    /\ width = 3 /\ height = 2
    /\ AllDistinct(heap[original])
    /\ rotated # original /\ translated # original
    /\ heap[rotated] = heap[original]
    /\ heap[translated] = heap[original]

\* C5: reflecting the reflection about the same axis (rows, columns or both)
\* gives back the source, pixel for pixel and in its dimensions.
C5_ReflectInvolution ==
    pc \in {"destroy_all", "done"} =>
        flip(heap[reflected], flipCode) = heap[original]

C5_Witness ==
    /\ pc = "destroy_all" /\ flipCode = 1
    /\ width = 3 /\ height = 2
    /\ AllDistinct(heap[original])
    /\ heap[reflected] # heap[original]
    /\ flip(heap[reflected], flipCode) = heap[original]

\* The arrays main's names are bound to.
Refs == <<original, translated, rotated, resized, reflected>>

\* C6: no operation writes an array that exists before it and after it: the
\* source of every transformation keeps its pixels and its dimensions, every
\* result is in a cell that was free, and `original` stays bound to one array
\* that equals the loaded image.
C6_SourcesNeverMutated ==
    [][/\ \A i \in BufIds : (heap[i] # None /\ heap'[i] # None) => heap'[i] = heap[i]
       /\ \A k \in 1 .. Len(Refs) :
              Refs'[k] # Refs[k] => (heap[Refs'[k]] = None /\ heap'[Refs'[k]] # None)
       /\ original # 0 => original' = original
       /\ original' # 0 => heap'[original'] = file']_vars

C6_Witness ==
    /\ pc = "done"
    /\ width = 2 /\ height = 3
    /\ AllDistinct(file)
    /\ heap[original] = file
    /\ \A j, k \in 1 .. Len(Refs) : Refs[j] # 0 /\ (j # k => Refs[j] # Refs[k])
    /\ heap[reflected] # file /\ heap[translated] # file

\* C7: translate(src, dx, dy) has src's dimensions; its pixel (u, v) is
\* src's pixel (u - dx, v - dy) when that lies in src and the fill color
\* otherwise; a source pixel shifted past a border appears nowhere.
C7_Translate ==
    pc = "translate_again" =>
        LET src == heap[original]
            dst == heap[translated]
        IN  /\ dst.width = src.width /\ dst.height = src.height
            /\ \A p \in Coords(dst.width, dst.height) :
                   dst.px[p] = IF InBounds(src, p[1] - Tx, p[2] - Ty)
                               THEN src.px[<<p[1] - Tx, p[2] - Ty>>] ELSE FillColor
            /\ AllDistinct(src) =>
                   \A q \in DOMAIN src.px :
                       ~InBounds(dst, q[1] + Tx, q[2] + Ty) =>
                           \A p \in DOMAIN dst.px : dst.px[p] # src.px[q]

C7_Witness ==
    /\ pc = "translate_again" /\ Tx = 1 /\ Ty = -1
    /\ width = 3 /\ height = 3
    /\ AllDistinct(heap[original])
    /\ heap[translated].px[<<1, 0>>] = heap[original].px[<<0, 1>>]
    /\ heap[translated].px[<<0, 0>>] = FillColor
    /\ heap[translated].px[<<2, 2>>] = FillColor

\* C10: warping with a matrix whose linear part is singular fails with
\* DegenerateTransformError and returns no destination raster; building the
\* singular matrix succeeds.
C10_SingularWarpFails ==
    (pc = "resize" /\ Det(M) = 0) =>
        (err = "DegenerateTransformError" /\ resized = 0)

\* Every pixel of the raster r is assigned, and r has a pixel.
FullyAssigned(r) ==
    /\ r.width > 0 /\ r.height > 0
    /\ DOMAIN r.px = Coords(r.width, r.height)

\* The dilation of lines 204-208 has run.
Scaled == pc = "resize"

\* C11: every transform call either returns a destination raster with every
\* pixel assigned or fails with a typed error before a raster is allocated;
\* a dilation whose computed destination width or height is not positive
\* fails with InvalidDimensions and produces no raster.
C11_InvalidDimensionsFails ==
    /\ \A i \in BufIds : heap[i] # None => FullyAssigned(heap[i])
    /\ (Scaled /\ (Ceil(width * scale) <= 0 \/ Ceil(height * scale) <= 0)) =>
           (err = "InvalidDimensions" /\ resized = 0)

\* C12: for every source size and every positive scale factor the dilation
\* returns a raster whose width is the least integer not below width * scale
\* and whose height is the least integer not below height * scale, both at
\* least 1.
C12_ScaledSize ==
    (Scaled /\ scale > 0) =>
        LET dst == heap[resized]
        IN  /\ dst.width * SCALE >= width * scale
            /\ (dst.width - 1) * SCALE < width * scale
            /\ dst.height * SCALE >= height * scale
            /\ (dst.height - 1) * SCALE < height * scale
            /\ dst.width >= 1 /\ dst.height >= 1
            /\ width_r = dst.width /\ height_r = dst.height
            /\ FullyAssigned(dst)

C12_Witness ==
    /\ Scaled /\ scale = SCALE \div 2
    /\ width = 3 /\ height = 1
    /\ heap[resized].width = 2 /\ heap[resized].height = 1

\* The tolerance of the comparisons of fixed-point points: 1/100 pixel.
Tol == SCALE \div 100

Near(q, r) == Abs(q[1] - r[1]) <= Tol /\ Abs(q[2] - r[2]) <= Tol

\* The two rotations have been multiplied and the point mapped.
Composed == pc = "composed"

\* C13: for every center c and angles a and b, the product of the rotation
\* about c by a and the rotation about c by b, both of scale 1, takes every
\* point p where the rotation about c by a + b takes it (a = 30, b = 15
\* included), and where the second takes the image of p under the first.
C13_RotationsCompose ==
    (Composed /\ scale = SCALE) =>
        /\ Near(mx.q,
                Apply(getRotationMatrix2D(<<2 * center[1], 2 * center[2]>>,
                                          teta + mx.b, SCALE),
                      mx.p[1], mx.p[2]))
        /\ teta % 90 = 0 =>
               LET r == Apply(M, mx.p[1], mx.p[2])
               IN  Near(mx.q, Apply(mx.m2, r[1] \div SCALE, r[2] \div SCALE))

C13_Witness ==
    /\ Composed /\ scale = SCALE
    /\ teta = 30 /\ mx.b = 15
    /\ center = <<1, 2>> /\ mx.p = <<2, MaxDim>>
    /\ Abs(mx.composed.a - Cos(ScriptTeta)) <= 2
    /\ Abs(mx.composed.b - Sin(ScriptTeta)) <= 2
    /\ mx.q # <<2 * SCALE, MaxDim * SCALE>>

\* Both matrices of the angle have been built.
BothBuilt == pc \in {"second_matrix", "compose", "composed"}

\* C14: for every angle t the raw matrix equals the helper's matrix for
\* center (0, 0), angle -t and scale 1; in image coordinates, y down, the raw
\* matrix of a positive angle turns the x axis towards +y (clockwise) and
\* the helper turns it towards -y (counter-clockwise).
C14_RawIsHelperNegated ==
    BothBuilt =>
        /\ mx.raw = getRotationMatrix2D(<<0, 0>>, -teta, SCALE)
        /\ (teta % 360 > 0 /\ teta % 360 < 180) =>
               /\ Apply(mx.raw, 1, 0)[2] > 0
               /\ scale > 0 =>
                      Apply(M, center[1] + 1, center[2])[2] < center[2] * SCALE

C14_Witness ==
    /\ pc = "second_matrix"
    /\ teta = ScriptTeta /\ scale = SCALE /\ center = <<0, 0>>
    /\ mx.raw.b = -Sin(ScriptTeta) /\ mx.raw.c = Sin(ScriptTeta)
    /\ M.b = Sin(ScriptTeta) /\ M.c = -Sin(ScriptTeta)

\* C15: within one warp call, however the destination pixels are shared out
\* among the workers and however their steps interleave, no destination pixel
\* is written twice, the source is never written, and the finished raster is
\* the one the call computes pixel after pixel, every pixel written exactly
\* once.
C15_WorkersAgree ==
    /\ pc \in {"warp", "warped"} =>
           /\ heap[original] = par.src
           /\ \A p \in DOMAIN par.writes : par.writes[p] <= 1
    /\ pc = "warped" =>
           /\ heap[translated] = warpAffine(par.src, M, width, height)
           /\ \A p \in DOMAIN par.writes : par.writes[p] = 1

C15_Witness ==
    /\ pc = "warped"
    /\ width = 2 /\ height = 2
    /\ M = TranslationMatrix(1, 0)
    /\ par.owner[<<0, 0>>] = 1 /\ par.owner[<<1, 0>>] = 2
    /\ par.owner[<<0, 1>>] = 2 /\ par.owner[<<1, 1>>] = 1
    /\ heap[translated].px[<<1, 1>>] = par.src.px[<<0, 1>>]
    /\ heap[translated].px[<<0, 0>>] = FillColor

\* The reflection of lines 233-235 has run.
Reflected == pc = "destroy_all"

\* C16 as stated: the reflection returns a raster of the source's dimensions
\* in which horizontal sets dst(x, y) = src(x, height-1-y), vertical sets
\* dst(x, y) = src(width-1-x, y) and both sets dst(x, y) =
\* src(width-1-x, height-1-y); both equals horizontal then vertical and
\* vertical then horizontal.
C16_ReflectAsStated ==
    Reflected =>
        LET src == heap[original]
            dst == heap[reflected]
        IN  /\ dst.width = src.width /\ dst.height = src.height
            /\ \A p \in Coords(dst.width, dst.height) :
                   /\ flipCode = Horizontal =>
                          dst.px[p] = src.px[<<p[1], src.height - 1 - p[2]>>]
                   /\ flipCode = Vertical =>
                          dst.px[p] = src.px[<<src.width - 1 - p[1], p[2]>>]
                   /\ flipCode = Both =>
                          dst.px[p] = src.px[<<src.width - 1 - p[1],
                                               src.height - 1 - p[2]>>]
            /\ flipCode = Both =>
                   /\ dst = flip(flip(src, Horizontal), Vertical)
                   /\ dst = flip(flip(src, Vertical), Horizontal)

\* C16, amended: the reflection returns a raster of the source's dimensions
\* in which horizontal (code 1) sets dst(x, y) = src(width-1-x, y), vertical
\* (code 0, the script's call) sets dst(x, y) = src(x, height-1-y) and both
\* (code -1) sets dst(x, y) = src(width-1-x, height-1-y); both equals
\* horizontal then vertical and vertical then horizontal.
C16_Reflect ==
    Reflected =>
        LET src == heap[original]
            dst == heap[reflected]
        IN  /\ dst.width = src.width /\ dst.height = src.height
            /\ \A p \in Coords(dst.width, dst.height) :
                   /\ flipCode = Horizontal =>
                          dst.px[p] = src.px[<<src.width - 1 - p[1], p[2]>>]
                   /\ flipCode = Vertical =>
                          dst.px[p] = src.px[<<p[1], src.height - 1 - p[2]>>]
                   /\ flipCode = Both =>
                          dst.px[p] = src.px[<<src.width - 1 - p[1],
                                               src.height - 1 - p[2]>>]
            /\ flipCode = Both =>
                   /\ dst = flip(flip(src, Horizontal), Vertical)
                   /\ dst = flip(flip(src, Vertical), Horizontal)

C16_Witness ==
    /\ Reflected /\ flipCode = Vertical
    /\ width = 2 /\ height = 3
    /\ AllDistinct(heap[original])
    /\ heap[reflected].px[<<0, 0>>] = heap[original].px[<<0, 2>>]
    /\ heap[reflected].px[<<1, 1>>] = heap[original].px[<<1, 1>>]
    /\ heap[reflected].px[<<0, 0>>] # heap[original].px[<<1, 0>>]

\* main has ended with an exception.
Raised == pc = "raised"

\* C17: in transformation.py and in image.py, when the load yields no raster
\* main raises FileNotFoundError carrying the path before any window is
\* shown, any pixel is read or any transform is run: no window is open, no
\* raster is in memory and no matrix has been built when it is raised, and
\* whenever a window is open or a raster is in memory the load had yielded a
\* raster and nothing was raised.
C17_NotFoundBeforeAnything ==
    /\ (Raised /\ (file = None \/ err = "FileNotFoundError")) =>
           /\ file = None
           /\ err = "FileNotFoundError" /\ filename = image_path
           /\ windows = {}
           /\ \A i \in BufIds : heap[i] = None
           /\ \A k \in 1 .. Len(Refs) : Refs[k] = 0
           /\ image = 0
           /\ M = NoMatrix
    /\ (file = None /\ pc \notin {"imread", "image_imread"}) => Raised
    /\ (windows # {} \/ \E i \in BufIds : heap[i] # None) =>
           (file # None /\ err # "FileNotFoundError" /\ filename = "")

C17_Witness ==
    /\ Raised /\ file = None
    /\ image_path = MissingPath /\ filename = MissingPath
    /\ err = "FileNotFoundError"
    /\ windows = {}

\* C18: the canvas of the rotation without loss is sized from the angle
\* reduced modulo 90, so that the angles t + 90 k all give the canvas of t,
\* while the matrix is built from the angle itself: its linear part is the
\* rotation by teta.
C18_SizeFromReducedAngle ==
    /\ CanvasSized =>
           /\ width_r = Ceil(width * Cos(teta % 90) + height * Sin(teta % 90))
           /\ height_r = Ceil(width * Sin(teta % 90) + height * Cos(teta % 90))
           /\ \A k \in -2 .. 2 :
                  <<width_r, height_r>> = CanvasSize(width, height, teta + 90 * k)
    /\ AfterLossless =>
           /\ M.a = Cos(teta) /\ M.b = Sin(teta)
           /\ M.c = -Sin(teta) /\ M.d = Cos(teta)

C18_Witness ==
    /\ AfterLossless /\ teta = 135
    /\ width = 2 /\ height = 3
    /\ <<width_r, height_r>> = CanvasSize(2, 3, ScriptTeta)
    /\ M.a = -Cos(ScriptTeta) /\ M.b = Sin(ScriptTeta)

\* The source has been translated into the canvas and not yet been rotated.
PreTranslated == pc = "rotate_lossless"

\* C19: the translation into the canvas is by (width_r // 2 - width // 2,
\* height_r // 2 - height // 2), so that for every parity of the source and
\* canvas dimensions the source's center pixel (width // 2, height // 2) is
\* placed exactly on (width_r // 2, height_r // 2), the center of the
\* rotation, and is still there after the rotation.
C19_CenterOnCenter ==
    /\ PreTranslated =>
           /\ M = TranslationMatrix((width_r \div 2) - (width \div 2),
                                    (height_r \div 2) - (height \div 2))
           /\ Apply(M, width \div 2, height \div 2)
                  = <<(width_r \div 2) * SCALE, (height_r \div 2) * SCALE>>
           /\ <<width \div 2, height \div 2>> \in DOMAIN pts =>
                  pts[<<width \div 2, height \div 2>>]
                      = <<(width_r \div 2) * SCALE, (height_r \div 2) * SCALE>>
    /\ AfterLossless =>
           /\ Near(Apply(M, width_r \div 2, height_r \div 2),
                   <<(width_r \div 2) * SCALE, (height_r \div 2) * SCALE>>)
           /\ <<width \div 2, height \div 2>> \in DOMAIN pts =>
                  Near(pts[<<width \div 2, height \div 2>>],
                       <<(width_r \div 2) * SCALE, (height_r \div 2) * SCALE>>)

C19_Witness ==
    /\ AfterLossless /\ teta = ScriptTeta
    /\ width = 1 /\ height = 3
    /\ width_r = 3 /\ height_r = 3
    /\ pts[<<0, 1>>] = <<SCALE, SCALE>>

\* C20: for every center, angle and scale, 0 and scales other than 1
\* included, the rotation matrix takes the center to the center, with the
\* angle counted either way; the raw matrix keeps its center, the origin.
C20_CenterFixed ==
    BothBuilt =>
        /\ Near(mx.c, <<center[1] * SCALE, center[2] * SCALE>>)
        /\ Near(Apply(M, center[1], center[2]),
                <<center[1] * SCALE, center[2] * SCALE>>)
        /\ Near(Apply(getRotationMatrix2D(<<2 * center[1], 2 * center[2]>>,
                                          -teta, scale),
                      center[1], center[2]),
                <<center[1] * SCALE, center[2] * SCALE>>)
        /\ Apply(mx.raw, 0, 0) = <<0, 0>>

C20_Witness ==
    /\ BothBuilt /\ scale = 0
    /\ center = <<1, 2>> /\ teta = 30
    /\ M.a = 0 /\ M.b = 0
    /\ mx.c = <<SCALE, 2 * SCALE>>

\* original has been translated into the enlarged destination (lines
\* 115-118) and the result translated back (lines 120-123).
EnlargedRoundTripDone == pc = "imutils_translate"

\* C21: for every raster and all offsets dx >= 0, dy >= 0, translating by
\* (dx, dy) into a destination of (width + dx, height + dy) and translating
\* the result by (-dx, -dy) into (width, height) returns a raster equal to
\* the source pixel for pixel; the enlarged raster in between has the
\* enlarged size and holds every source pixel at its shifted place.
C21_EnlargedRoundTrip ==
    /\ pc = "translate_back" =>
           LET src == heap[original]
               mid == heap[translated]
               dx == shifts[1][1]
               dy == shifts[1][2]
           IN  /\ dx >= 0 /\ dy >= 0
               /\ mid.width = width + dx /\ mid.height = height + dy
               /\ \A p \in Coords(width, height) :
                      mid.px[<<p[1] + dx, p[2] + dy>>] = src.px[p]
    /\ EnlargedRoundTripDone =>
           LET src == heap[original]
               dst == heap[translated]
           IN  /\ shifts[2] = <<-shifts[1][1], -shifts[1][2]>>
               /\ dst.width = src.width /\ dst.height = src.height
               /\ \A p \in Coords(src.width, src.height) : dst.px[p] = src.px[p]

C21_Witness ==
    /\ EnlargedRoundTripDone
    /\ shifts = <<<<1, 1>>, <<-1, -1>>>>
    /\ width = 2 /\ height = 3
    /\ AllDistinct(heap[original])
    /\ heap[translated] = heap[original]

\* C22: the warp with the reflection matrix, diagonal (-1, 1), (1, -1) or
\* (-1, -1) and the corrective translation, gives for every raster the
\* destination of the direct index reversal: the same dimensions, and for a
\* source whose pixels all differ from each other and from the fill color,
\* no fill-colored pixel and every source pixel exactly once.
C22_ReflectByWarp ==
    Reflected =>
        LET src == heap[original]
            dst == warpAffine(src, ReflectionMatrix(flipCode, width, height),
                              width, height)
        IN  /\ dst = heap[reflected]
            /\ dst.width = src.width /\ dst.height = src.height
            /\ AllDistinct(src) =>
                   /\ \A p \in DOMAIN dst.px : dst.px[p] # FillColor
                   /\ \A q \in DOMAIN src.px :
                          Cardinality({p \in DOMAIN dst.px : dst.px[p] = src.px[q]}) = 1

C22_Witness ==
    /\ Reflected /\ flipCode = Both
    /\ width = 3 /\ height = 2
    /\ AllDistinct(heap[original])
    /\ warpAffine(heap[original], ReflectionMatrix(Both, 3, 2), 3, 2).px[<<0, 0>>]
           = heap[original].px[<<2, 1>>]
    /\ heap[reflected].px[<<0, 0>>] = heap[original].px[<<2, 1>>]

\* C23: in the rotation without loss the raster made by the translation into
\* the canvas holds every source pixel: for every source size and every
\* angle width_r >= width and height_r >= height, and every source pixel is
\* placed inside the canvas.
C23_PreTranslationKeepsAll ==
    /\ CanvasSized => (width_r >= width /\ height_r >= height)
    /\ PreTranslated =>
           \A p \in DOMAIN pts :
               /\ pts[p][1] >= 0 /\ pts[p][1] <= (width_r - 1) * SCALE
               /\ pts[p][2] >= 0 /\ pts[p][2] <= (height_r - 1) * SCALE

\* The loads of histogram.py that have been made at the statement pc, by
\* their place in HistPaths.
HistLoaded ==
    CASE pc = "h_imread_contrast" -> {}
      [] pc \in {"h_low_contrast", "h_high_contrast", "h_imread_variable"} -> {1, 2}
      [] pc = "h_variable_contrast" -> {1, 2, 3}
      [] pc = "h_imread_image" -> {1, 2, 3}
      [] pc \in {"h_channels", "done"} -> {1, 2, 3, 4}
      [] OTHER -> {}

\* C24: in histogram.py each of the four loads is followed by a check of its
\* own result: main goes on past a load only when that load yielded a raster,
\* and when main ends raised it is with FileNotFoundError naming the path of
\* the first image that could not be loaded.
C24_EachLoadChecked ==
    /\ \A k \in HistLoaded : disk[HistPaths[k]] # None
    /\ Raised =>
           /\ err = "FileNotFoundError"
           /\ \E k \in 1 .. 4 :
                  /\ filename = HistPaths[k]
                  /\ disk[HistPaths[k]] = None
                  /\ \A j \in 1 .. k - 1 : disk[HistPaths[j]] # None

\* C26: in image.py every pixel write (the pixel of line 116, the region of
\* line 117, the three converted regions of lines 174-176) goes to an array
\* made by image.copy(), never to the loaded array or to a view of it: copy
\* and color are other arrays than image, and at every point after the load
\* image equals the decoded file and roi, a view of image, shows the pixels
\* of the decoded file.
C26_LoadedNeverWritten ==
    image # 0 =>
        /\ heap[image] = file
        /\ loc.copy # image /\ loc.color # image
        /\ loc.roi.base # 0 =>
               /\ loc.roi.base = image
               /\ Through(heap, loc.roi) = Through([i \in {image} |-> file], loc.roi)

C26_Witness ==
    /\ pc = "done" /\ image # 0 /\ loc.roi.base = image
    /\ loc.copy # 0 /\ heap[loc.copy].px[<<0, 0>>] # file.px[<<0, 0>>]
    /\ heap[loc.copy].px[<<50, 250>>] # file.px[<<50, 250>>]
    /\ loc.color # 0 /\ heap[loc.color].px[<<161, 161>>] # file.px[<<161, 161>>]
    /\ Through(heap, loc.roi).px[<<0, 0>>] = file.px[<<87, 50>>]
    /\ heap[image] = file

\* C25: when main of any of the four scripts returns normally, no display
\* window is open: every window shown during the run was destroyed by a
\* destroyWindow or destroyAllWindows call after the last image shown in it.
C25_NoWindowLeftOpen ==
    pc = "done" => windows = {}

====
